---- MODULE Spec2Model ----
(***************************************************************************)
(* The frame scheduler and the source management of the video component,  *)
(* with the pose-detection module it drives.                               *)
(*                                                                         *)
(* Two revisions of the component are in the repository and both are      *)
(* modelled; the variable rev says which one a behaviour runs:             *)
(*   "part_001"     src/unnamed/part_001 (catalog videos, camera toggle)   *)
(*   "VideoDisplay" src/src/components/VideoDisplay.vue, first component   *)
(* Both drive src/src/logic/poseDetection.js.                              *)
(*                                                                         *)
(* JavaScript runs every handler to completion; a handler is one action.  *)
(* An async function is cut at each await: the part before the await is   *)
(* one action, the continuation another, and any handler may run between  *)
(* them (the awaited detection and the camera acquisition are external).  *)
(***************************************************************************)
EXTENDS Integers, Sequences, FiniteSets, TLC

\* ------------------------------------------------------------------ bounds
\* Loop chains (pending ticks plus awaited detections) a run may hold at once.
MaxLoops == 2
\* Camera streams a run may hold at once: those live (tracks not stopped)
\* plus those being acquired.
MaxStreams == 2

\* Poses in one detection result.
MaxPoses == 2
\* Largest canvas or video dimension (0 is a zero-size canvas or a video
\* whose dimensions are not known yet).
MaxDim == 2
\* Saved context states a run may leave unrestored.
MaxDepth == 2
\* Landmarks in one pose given to the bounding-box functions.
MaxLandmarks == 2
\* Landmark coordinates are multiples of 1/Scale: the integer c stands for
\* c/Scale, so 0..Scale is the normalized range [0,1].
Scale == 2

\* Largest canvas or video side given to the render transform on its own.
MaxSide == 3
\* Bits of the significand of a JavaScript number (IEEE 754 binary64).
MantissaBits == 53

\* Readings of performance.now() a run distinguishes: 0..MaxClock.
MaxClock == 2
\* Largest catalog given to loadRandomVideo on its own.
MaxVideos == 3
\* Files uploaded in one run.
MaxUploads == 2
\* Largest width or height of a segmentation mask.
MaxMaskSide == 2
\* Confidence values are multiples of 1/ConfSteps: the integer c stands for
\* c/ConfSteps, so 0..ConfSteps is the range [0,1].
ConfSteps == 2

\* --------------------------------------------------------------- constants
\* The scheduler asks for videoElement.readyState >= 3 (HAVE_FUTURE_DATA).
HAVE_FUTURE_DATA == 3
\* HTMLMediaElement.readyState values the model draws from: 0 (HAVE_NOTHING:
\* no metadata, videoWidth = 0), 2 (HAVE_CURRENT_DATA) and 3.
ReadyStates == {0, 2, HAVE_FUTURE_DATA}
\* drawManualMask: maskOpacity = 0.7, in tenths; the alpha channel has 255
\* levels; a new canvas element is 300 x 150.
maskOpacityTenths == 7
AlphaMax == 255
CanvasDefaultWidth == 300
CanvasDefaultHeight == 150
maskColor == [r |-> 0, g |-> 191, b |-> 255]
\* Playback positions of the (looping) video: currentTime wraps around.
Times == {0, 1}

\* Sizes of the fetched video catalog (availableVideos.length) in part_001.
CatalogSizes == {0, 1, 2}

Revisions == {"part_001", "VideoDisplay"}
\* The revisions whose scheduler skips a frame it has processed: the first
\* script of VideoDisplay.vue and the older component src/unnamed/part_000.
DedupRevisions == {"VideoDisplay", "part_000"}
\* The revisions with object-URL code: part_001 (cleanupObjectUrl) and the
\* second script of VideoDisplay.vue (handleFileUpload, lines 379-507; its
\* source management is also that of part_000, lines 103-201).
UploadRevisions == {"part_001", "VideoDisplayUpload"}

\* The revisions of drawPoseResults: src/src/logic/poseDetection.js,
\* src/unnamed/part_003 and the component-local one of src/unnamed/part_000.
DrawRevisions == {"poseDetection", "part_003", "part_000"}
\* The revisions of the bounding-box code: src/unnamed/part_002 and
\* src/src/logic/poseDrawingUtils.js.
BoxRevisions == {"part_002", "poseDrawingUtils"}

Dims == 0..MaxDim
\* One step outside [0,1] on each side is included.
Coords == (-1)..(Scale + 1)
Points == [x : Coords, y : Coords]
\* landmarks is null/undefined (present = FALSE) or an array of points.
NoLandmarks == [present |-> FALSE, pts |-> <<>>]
LandmarkInputs ==
  {NoLandmarks} \cup
  {[present |-> TRUE, pts |-> p] :
     p \in UNION {[1..n -> Points] : n \in 0..MaxLandmarks}}
\* calculatePoseBoundingBox returns null (defined = FALSE) or a box.
NoBox ==
  [defined |-> FALSE, minX |-> 0, minY |-> 0, maxX |-> 0, maxY |-> 0,
   normalizedWidth |-> 0, normalizedHeight |-> 0]
\* A detection result: its poses (results.landmarks.length) and whether it
\* carries segmentation masks; id tells results (and their masks) apart.
Results == [id : 1..(MaxLoops + 1), nPoses : 0..MaxPoses, hasMask : BOOLEAN]
\* The arguments of a drawPoseResults call: the result, the video's
\* dimensions, and whether a DrawingUtils call raised an error.
NoResult ==
  [id |-> 0, nPoses |-> 0, hasMask |-> FALSE, vw |-> 0, vh |-> 0,
   threw |-> FALSE]
\* The worked examples of the render transform: canvas 800x600 with a
\* 400x300 and with a 640x480 video.
TransformExamples == {<<800, 600, 400, 300>>, <<800, 600, 640, 480>>}
\* Dimensions whose ratios are not binary fractions: a 1920x1080 canvas with
\* an 854x480 video, a 1519x748 canvas with a 1280x720 video, and the
\* smallest such case.
RoundingInputs ==
  {<<1920, 1080, 854, 480>>, <<1519, 748, 1280, 720>>, <<1, 7, 1, 25>>}
\* (canvasWidth, canvasHeight, videoWidth, videoHeight), all positive.
TransformInputs ==
  ((1..MaxSide) \X (1..MaxSide) \X (1..MaxSide) \X (1..MaxSide))
  \cup TransformExamples \cup RoundingInputs
\* A JavaScript number of the transform: the rational num/den in lowest
\* terms (den > 0) or, with den = 0, Infinity (num = 1), -Infinity
\* (num = -1) and NaN (num = 0).
NaN == [num |-> 0, den |-> 0]
Zero == [num |-> 0, den |-> 1]
One == [num |-> 1, den |-> 1]
NoTransform == [scale |-> NaN, offsetX |-> NaN, offsetY |-> NaN]
\* A positive double: (1.m[2]m[3]...m[53] in binary) * 2^e, m[1] = 1.
NoDouble == [e |-> 0, m |-> <<>>]
NoTransform64 == [scale |-> NoDouble, width |-> NoDouble, height |-> NoDouble,
                  offsetX |-> 0, offsetY |-> 0]
\* The revisions of drawManualMask: src/unnamed/part_002 (exported, creates
\* its scratch canvas on demand) and src/src/logic/poseDetection.js (the
\* scratch canvas is created by initializePoseDetection).
MaskRevisions == {"part_002", "poseDetection"}
\* A segmentation mask: width, height and one confidence per cell; part_002
\* also accepts a missing mask (present = FALSE). The confidences of a mask
\* start at b and go up by st from cell to cell, wrapping around.
NoMask == [present |-> FALSE, width |-> 0, height |-> 0, data |-> <<>>]
Masks ==
  {NoMask} \cup
  {[present |-> TRUE, width |-> w, height |-> h,
    data |-> [i \in 1..(w * h) |-> (b + (i - 1) * st) % (ConfSteps + 1)]] :
     w \in 0..MaxMaskSide, h \in 0..MaxMaskSide,
     b \in 0..ConfSteps, st \in 0..ConfSteps}
\* reusableImageData: null (present = FALSE) or an ImageData of width x
\* height RGBA cells.
NoImageData == [present |-> FALSE, width |-> 0, height |-> 0, data |-> <<>>]
\* maskCanvas: null (made = 0) or the scratch canvas; made counts the
\* canvases created and kept.
NoCanvas == [made |-> 0, width |-> 0, height |-> 0]
OpNames ==
  {"clearRect", "save", "translate", "scale", "drawManualMask",
   "drawConnectors", "drawLandmarks", "restore", "strokeRect", "error",
   "putImageData", "drawImage", "close"}

VARIABLES
  rev,               \* which revision of the component runs
  numVideos,         \* part_001: availableVideos.length; VideoDisplay: defaultVideos.length
  mounted,           \* the component is mounted: videoElement/overlayCanvas refs are set
  poseInit,          \* initializePoseDetection: "pending" | "ok" | "partial" | "failed"
  detectionActive,   \* ref detectionActive
  usingWebcam,       \* ref usingWebcam
  webcamReady,       \* ref webcamReady
  mediaStream,       \* TRUE when mediaStream holds a stream, FALSE when null
  liveStreams,       \* camera streams acquired whose tracks have not been stopped
  srcObject,         \* videoElement.srcObject is a stream
  currentVideoSource,\* ref currentVideoSource (the src attribute) is a URL, not ''
  camPending,        \* activateWebcam invocations awaiting getUserMedia
  metaHandler,       \* VideoDisplay: videoElement.onloadedmetadata ("none" | "video" | "webcam")
  paused,            \* videoElement.paused
  ended,             \* videoElement.ended
  readyState,        \* videoElement.readyState
  metaPending,       \* a loadedmetadata event of the current source is queued
  currentTime,       \* videoElement.currentTime
  lastVideoTime,     \* VideoDisplay: ref lastVideoTime (-1 at start)
  rafPending,        \* requestAnimationFrame callbacks (runDetectionLoop) not yet run
  animationFrameId,  \* part_001: "null" | "pending" (names a pending callback) | "stale"
  awaiting,          \* runDetectionLoop invocations suspended at `await detectPoses`
  segmentationMask,  \* poseDetection.js segmentationMask: "null" | "open" | "closed"
  log,               \* what the last handler did, in order (history):
                     \*   "detect"     detectForVideo was called
                     \*   "render"     drawPoseResults was called
                     \*   "release"    mask.close() on a mask not yet closed
                     \*   "rerelease"  mask.close() on a mask already closed
                     \*   "reschedule" requestAnimationFrame(runDetectionLoop)
                     \*   "error"      an exception reached a catch block
                     \*   "stop"       runDetectionLoop returned at once: flag off
  call,              \* the renderer-level function called last: "none" | "detectPoses" |
                     \*   "drawPoseResults" | "updateCanvasSize" | "boundingBox" |
                     \*   "renderTransform" | "drawManualMask"
  drawRev,           \* which revision of the drawing code is called
  pending,           \* detection results returned and not yet handed to drawPoseResults
  maskOf,            \* id of the result whose first mask segmentationMask holds (0: none)
  rendered,          \* the arguments of the last drawPoseResults call
  ops,               \* canvas operations of the last drawing call, in order
  canvasW,           \* overlay canvas width
  canvasH,           \* overlay canvas height
  ctxStack,          \* 2d context: saved states not yet restored (each: was the
                     \*   transform away from device-pixel space when saved)
  ctxTransformed,    \* 2d context: the current transform is not device-pixel space
  overlay,           \* the canvas holds overlay pixels
  landmarks,         \* bounding box: the landmark sequence given
  box,               \* bounding box: the box computed from landmarks
  dims,              \* render transform: <<canvas width, canvas height, videoWidth,
                     \*   videoHeight>> given
  transform,         \* render transform: scale, offsetX, offsetY computed from dims
  transform64,       \* render transform: the same as double-precision evaluation
                     \*   yields it (scale, the scaled sides, the signs of the offsets)
  mask,              \* drawManualMask: the mask given
  maskCanvas,        \* drawManualMask: the offscreen scratch canvas
  reusableImageData, \* drawManualMask: the cached ImageData
  lastMaskWidth,     \* drawManualMask: lastMaskWidth (-1: none)
  lastMaskHeight,    \* drawManualMask: lastMaskHeight (-1: none)
  now,               \* performance.now(), in clock steps since the page was loaded
  lastStamp,         \* timestamp given to the latest detectForVideo call (0: none yet)
  prevStamp,         \* timestamp given to the call before that one (0: none yet)
  lastFrame,         \* frame-deduplicating schedulers: playback time of the frame
                     \*   given to the latest detectForVideo call (-1: none yet)
  lastVideoIndex,    \* part_001: ref lastVideoIndex (-1 at start)
  randomIndex,       \* loadRandomVideo: its local randomIndex (-1: not yet assigned)
  selectedVideo,     \* loadRandomVideo: index of the selectedVideo loaded last (-1: none)
  lrv,               \* loadRandomVideo: "idle" | "loop" (inside its do-while)
  liveObjectUrls,    \* object URLs created by URL.createObjectURL and not revoked
  uploadedObjectUrl, \* part_001: ref uploadedObjectUrl holds a URL (FALSE: null)
  sourceIsUpload     \* currentVideoSource is an object URL of an uploaded file

sched == <<detectionActive, rafPending, animationFrameId, awaiting, lastVideoTime>>
source == <<usingWebcam, webcamReady, mediaStream, liveStreams, srcObject,
            currentVideoSource, camPending, metaHandler>>
video == <<paused, ended, readyState, metaPending, currentTime>>
renderer == <<call, drawRev, pending, maskOf, rendered, ops, canvasW, canvasH,
              ctxStack, ctxTransformed, overlay, landmarks, box>>
maskVars == <<mask, maskCanvas, reusableImageData, lastMaskWidth,
              lastMaskHeight>>
units == <<dims, transform, transform64, maskVars>>
clock == <<now, lastStamp, prevStamp, lastFrame>>
catalog == <<lastVideoIndex, randomIndex, selectedVideo, lrv>>
uploads == <<liveObjectUrls, uploadedObjectUrl, sourceIsUpload>>
vars == <<rev, numVideos, mounted, poseInit, sched, source, video, segmentationMask, log,
          renderer, units, clock, catalog, uploads>>

TypeOK ==
  /\ rev \in Revisions \cup DedupRevisions \cup UploadRevisions
  /\ numVideos \in CatalogSizes \cup {4} \cup (0..MaxVideos)
  /\ mounted \in BOOLEAN
  /\ poseInit \in {"pending", "ok", "partial", "failed"}
  /\ detectionActive \in BOOLEAN
  /\ usingWebcam \in BOOLEAN
  /\ webcamReady \in BOOLEAN
  /\ mediaStream \in BOOLEAN
  /\ liveStreams \in 0..MaxStreams
  /\ srcObject \in BOOLEAN
  /\ currentVideoSource \in BOOLEAN
  /\ camPending \in 0..MaxStreams
  /\ metaHandler \in {"none", "video", "webcam"}
  /\ paused \in BOOLEAN
  /\ ended \in BOOLEAN
  /\ readyState \in ReadyStates
  /\ metaPending \in BOOLEAN
  /\ currentTime \in Times
  /\ lastVideoTime \in {-1} \cup Times
  /\ rafPending \in 0..(MaxLoops + 1)
  /\ animationFrameId \in {"null", "pending", "stale"}
  /\ awaiting \in 0..(MaxLoops + 1)
  /\ segmentationMask \in {"null", "open", "closed"}
  /\ log \in Seq({"detect", "render", "release", "rerelease", "reschedule",
                  "error", "stop"})
  /\ call \in {"none", "detectPoses", "drawPoseResults", "updateCanvasSize",
               "boundingBox", "renderTransform", "drawManualMask"}
  /\ drawRev \in DrawRevisions \cup BoxRevisions \cup MaskRevisions
  /\ pending \in Seq(Results)
  /\ Len(pending) <= MaxLoops
  /\ maskOf \in 0..(MaxLoops + 1)
  /\ rendered.id \in 0..(MaxLoops + 1)
  /\ rendered.nPoses \in 0..MaxPoses
  /\ rendered.vw \in Dims
  /\ rendered.vh \in Dims
  /\ \A i \in 1..Len(ops) : ops[i][1] \in OpNames
  /\ canvasW \in Dims
  /\ canvasH \in Dims
  /\ ctxStack \in Seq(BOOLEAN)
  /\ Len(ctxStack) <= MaxDepth
  /\ ctxTransformed \in BOOLEAN
  /\ overlay \in BOOLEAN
  /\ landmarks \in LandmarkInputs
  /\ box.defined \in BOOLEAN
  /\ dims \in TransformInputs
  /\ transform.scale.den >= 0
  /\ mask \in Masks
  /\ maskCanvas.made \in 0..1
  /\ maskCanvas.width \in (0..MaxMaskSide) \cup {CanvasDefaultWidth}
  /\ maskCanvas.height \in (0..MaxMaskSide) \cup {CanvasDefaultHeight}
  /\ reusableImageData.present \in BOOLEAN
  /\ lastMaskWidth \in (-1)..MaxMaskSide
  /\ lastMaskHeight \in (-1)..MaxMaskSide
  /\ now \in 0..MaxClock
  /\ lastStamp \in 0..MaxClock
  /\ prevStamp \in 0..MaxClock
  /\ lastFrame \in {-1} \cup Times
  /\ lastVideoIndex \in (-1)..MaxVideos
  /\ randomIndex \in (-1)..MaxVideos
  /\ selectedVideo \in (-1)..MaxVideos
  /\ lrv \in {"idle", "loop"}
  /\ liveObjectUrls \in 0..MaxUploads
  /\ uploadedObjectUrl \in BOOLEAN
  /\ sourceIsUpload \in BOOLEAN

\* The state after the component is constructed and mounted, detection off,
\* the inference capability still initialising. VideoDisplay has loaded its
\* first default video in onMounted; part_001 loads one once the catalog is
\* fetched (LoadRandomVideo).
InitComponentOf(sizes) ==
  /\ rev \in Revisions
  /\ numVideos \in (IF rev = "VideoDisplay" THEN {4} ELSE sizes)
  /\ mounted = TRUE
  /\ poseInit = "pending"
  /\ detectionActive = FALSE
  /\ usingWebcam = FALSE
  /\ webcamReady = FALSE
  /\ mediaStream = FALSE
  /\ liveStreams = 0
  /\ srcObject = FALSE
  /\ currentVideoSource = (rev = "VideoDisplay")
  /\ camPending = 0
  /\ metaHandler = IF rev = "VideoDisplay" THEN "video" ELSE "none"
  /\ paused = TRUE
  /\ ended = FALSE
  /\ readyState = 0
  /\ metaPending = FALSE
  /\ currentTime = 0
  /\ lastVideoTime = -1
  /\ rafPending = 0
  /\ animationFrameId = "null"
  /\ awaiting = 0
  /\ segmentationMask = "null"
  /\ log = <<>>
  /\ now = 0
  /\ lastVideoIndex = -1
  /\ randomIndex = -1
  /\ selectedVideo = -1
  /\ lrv = "idle"
  /\ liveObjectUrls = 0
  /\ uploadedObjectUrl = FALSE
  /\ sourceIsUpload = FALSE
  /\ lastStamp = 0
  /\ prevStamp = 0
  /\ lastFrame = -1

InitComponent == InitComponentOf(CatalogSizes)

\* The renderer before its first call: nothing drawn, context untouched.
InitRenderer ==
  /\ call = "none"
  /\ drawRev = "poseDetection"
  /\ pending = <<>>
  /\ maskOf = 0
  /\ rendered = NoResult
  /\ ops = <<>>
  /\ canvasW = 1
  /\ canvasH = 1
  /\ ctxStack = <<>>
  /\ ctxTransformed = FALSE
  /\ overlay = FALSE
  /\ landmarks = NoLandmarks
  /\ box = NoBox

\* The functions called on their own: not called yet.
InitUnits ==
  /\ dims = <<1, 1, 1, 1>>
  /\ transform = NoTransform
  /\ transform64 = NoTransform64
  /\ mask = NoMask
  /\ maskCanvas = NoCanvas
  /\ reusableImageData = NoImageData
  /\ lastMaskWidth = -1
  /\ lastMaskHeight = -1

Init == InitComponent /\ InitRenderer /\ InitUnits

\* ------------------------------------------------- poseDetection.js state
\* poseLandmarker is set on line 27, drawingUtils on line 40: "partial" is an
\* initialisation that threw between the two.
poseLandmarker == poseInit \in {"ok", "partial"}
drawingUtils == poseInit = "ok"

\* videoElement.videoWidth and videoHeight are 0 until the metadata is known.
videoWidth == IF readyState = 0 THEN 0 ELSE 1

\* initializePoseDetection settles: success, failure before the landmarker
\* exists, or failure after it (DrawingUtils / canvas context).
InitializePoseDetection ==
  /\ poseInit = "pending"
  /\ \E r \in {"ok", "partial", "failed"} : poseInit' = r
  /\ log' = <<>>
  /\ UNCHANGED <<rev, numVideos, mounted, sched, source, video, segmentationMask>>
  /\ UNCHANGED renderer
  /\ UNCHANGED units
  /\ UNCHANGED clock
  /\ UNCHANGED catalog
  /\ UNCHANGED uploads

\* ------------------------------------------------------ the video element
\* The media element's load algorithm, run when its source changes: it
\* drops the queued events of the old source, pauses and rewinds.
ElementLoad ==
  /\ paused' = TRUE
  /\ ended' = FALSE
  /\ readyState' = 0
  /\ metaPending' = FALSE
  /\ currentTime' = 0

\* The element buffers or loses data; reaching the metadata queues the
\* loadedmetadata event.
ReadyStateChange ==
  /\ mounted
  /\ srcObject \/ currentVideoSource
  /\ \E r \in ReadyStates \ {readyState, 0} :
       /\ readyState' = r
       /\ metaPending' = (metaPending \/ readyState = 0)
  /\ log' = <<>>
  /\ UNCHANGED <<rev, numVideos, mounted, poseInit, sched, source, segmentationMask,
                 paused, ended, currentTime>>
  /\ UNCHANGED renderer
  /\ UNCHANGED units
  /\ UNCHANGED clock
  /\ UNCHANGED catalog
  /\ UNCHANGED uploads

\* Playback starts (autoplay), is paused by the browser, or the loop wraps.
PlaybackChange ==
  /\ mounted
  /\ readyState # 0
  /\ \E p \in BOOLEAN, e \in BOOLEAN :
       /\ <<p, e>> # <<paused, ended>>
       /\ paused' = p
       /\ ended' = e
  /\ log' = <<>>
  /\ UNCHANGED <<rev, numVideos, mounted, poseInit, sched, source, segmentationMask,
                 readyState, metaPending, currentTime>>
  /\ UNCHANGED renderer
  /\ UNCHANGED units
  /\ UNCHANGED clock
  /\ UNCHANGED catalog
  /\ UNCHANGED uploads

\* Playback advances to another frame (the video loops: the time wraps).
\* Only the frame-deduplicating schedulers read currentTime; part_001 never
\* does, and the model leaves it at 0 there.
TimeAdvance ==
  /\ rev \in DedupRevisions
  /\ mounted
  /\ ~paused /\ ~ended /\ readyState # 0
  /\ currentTime' = (currentTime + 1) % Cardinality(Times)
  /\ log' = <<>>
  /\ UNCHANGED <<rev, numVideos, mounted, poseInit, sched, source, segmentationMask,
                 paused, ended, readyState, metaPending>>
  /\ UNCHANGED renderer
  /\ UNCHANGED units
  /\ UNCHANGED clock
  /\ UNCHANGED catalog
  /\ UNCHANGED uploads

\* ------------------------------------------------- poseDetection.js calls
\* What detectForVideo does on one call: a result with a segmentation mask,
\* a result without one, or an exception.
DetectOutcomes == {"mask", "nomask", "throw"}

\* detectPoses throws (not initialised, or the library throws).
detectPosesThrows(out) == ~poseLandmarker \/ out = "throw"

\* detectPoses stores the result's first mask in segmentationMask, or null.
detectPosesMask(out) == IF out = "mask" THEN "open" ELSE "null"

\* Variant of detectTimestamp that tags a request with the playback time.
detectTimestamp_VideoTime == currentTime

\* The timestamp given to detectPoses: performance.now() (part_001 line
\* 210, VideoDisplay.vue line 173), passed on to detectForVideo (line 65).
detectTimestamp == now

\* drawPoseResults draws (does not return early): renderer initialised,
\* canvas present, at least one pose, video dimensions known.
drawPoseResultsDraws(hasPoses) ==
  drawingUtils /\ mounted /\ hasPoses /\ videoWidth # 0

\* The events of one drawPoseResults call, in order; drawManualMask closes
\* the mask in its finally block. thr: drawConnectors/drawLandmarks throws.
drawPoseResultsLog(hasPoses, thr) ==
  <<"render">>
  \o (IF drawPoseResultsDraws(hasPoses) /\ segmentationMask # "null"
      THEN <<IF segmentationMask = "open" THEN "release" ELSE "rerelease">>
      ELSE <<>>)
  \o (IF drawPoseResultsDraws(hasPoses) /\ thr THEN <<"error">> ELSE <<>>)

\* segmentationMask after drawPoseResults: closed if drawManualMask ran.
drawPoseResultsMask(hasPoses) ==
  IF drawPoseResultsDraws(hasPoses) /\ segmentationMask # "null"
  THEN "closed" ELSE segmentationMask

\* drawPoseResults throws: only while drawing the poses.
drawPoseResultsThrows(hasPoses, thr) == drawPoseResultsDraws(hasPoses) /\ thr

\* Variant of LoopBlocked that does not look at the flag.
LoopBlocked_IgnoresFlag(act, ready) ==
  \/ ~mounted
  \/ paused
  \/ ended
  \/ (usingWebcam /\ ~ready)
  \/ readyState < HAVE_FUTURE_DATA

\* ------------------------------------------------- part_001: the scheduler
\* The preconditions runDetectionLoop checks first (lines 192-199), with the
\* flag values act and ready the caller has just written.
LoopBlocked(act, ready) ==
  \/ ~act
  \/ ~mounted
  \/ paused
  \/ ended
  \/ (usingWebcam /\ ~ready)
  \/ readyState < HAVE_FUTURE_DATA

\* runDetectionLoop up to its await (lines 190-210), entered with the flag
\* act, the latch ready, pend callbacks pending and the stored id afid.
runDetectionLoop(act, ready, pend, afid, out) ==
  IF LoopBlocked(act, ready)
  THEN /\ detectionActive' = act
       /\ rafPending' = IF act THEN pend + 1 ELSE pend
       /\ animationFrameId' = IF act THEN "pending" ELSE afid
       /\ log' = IF act THEN <<"reschedule">> ELSE <<"stop">>
       /\ UNCHANGED <<awaiting, segmentationMask, lastStamp, prevStamp>>
  ELSE IF detectPosesThrows(out)
  THEN /\ detectionActive' = FALSE
       /\ rafPending' = pend
       /\ animationFrameId' = afid
       /\ log' = IF poseLandmarker THEN <<"detect", "error">> ELSE <<"error">>
       /\ lastStamp' = IF poseLandmarker THEN detectTimestamp ELSE lastStamp
       /\ prevStamp' = IF poseLandmarker THEN lastStamp ELSE prevStamp
       /\ UNCHANGED <<awaiting, segmentationMask>>
  ELSE /\ detectionActive' = act
       /\ rafPending' = pend
       /\ animationFrameId' = afid
       /\ awaiting' = awaiting + 1
       /\ segmentationMask' = detectPosesMask(out)
       /\ log' = <<"detect">>
       /\ lastStamp' = detectTimestamp
       /\ prevStamp' = lastStamp

\* A requestAnimationFrame callback runs runDetectionLoop; own says whether
\* it is the callback animationFrameId names.
Tick ==
  /\ rev = "part_001"
  /\ rafPending > 0
  /\ \E own \in BOOLEAN, out \in DetectOutcomes :
       /\ own => animationFrameId = "pending"
       /\ ~own => (animationFrameId # "pending" \/ rafPending > 1)
       /\ runDetectionLoop(detectionActive, webcamReady, rafPending - 1,
                           IF own THEN "stale" ELSE animationFrameId, out)
  /\ UNCHANGED <<rev, numVideos, mounted, poseInit, source, video, lastVideoTime>>
  /\ UNCHANGED renderer
  /\ UNCHANGED units
  /\ UNCHANGED <<now, lastFrame>>
  /\ UNCHANGED catalog
  /\ UNCHANGED uploads

\* Variant of Resume that requests the next frame without looking at the flag.
Resume_AlwaysReschedules ==
  /\ rev = "part_001"
  /\ awaiting > 0
  /\ awaiting' = awaiting - 1
  /\ \E hasPoses \in BOOLEAN, thr \in BOOLEAN :
       LET drawn == mounted
           failed == drawn /\ drawPoseResultsThrows(hasPoses, thr)
           again == ~failed
       IN /\ segmentationMask' = IF drawn THEN drawPoseResultsMask(hasPoses)
                                 ELSE segmentationMask
          /\ detectionActive' = (detectionActive /\ ~failed)
          /\ rafPending' = IF again THEN rafPending + 1 ELSE rafPending
          /\ animationFrameId' = IF again THEN "pending" ELSE animationFrameId
          /\ log' = (IF drawn THEN drawPoseResultsLog(hasPoses, thr) ELSE <<>>)
                    \o (IF again THEN <<"reschedule">> ELSE <<>>)
  /\ UNCHANGED <<rev, numVideos, mounted, poseInit, source, video, lastVideoTime>>
  /\ UNCHANGED renderer
  /\ UNCHANGED units
  /\ UNCHANGED clock
  /\ UNCHANGED catalog
  /\ UNCHANGED uploads

\* runDetectionLoop after its await (lines 212-225): draw, then request the
\* next frame if still active; an exception deactivates the loop.
Resume ==
  /\ rev = "part_001"
  /\ awaiting > 0
  /\ awaiting' = awaiting - 1
  /\ \E hasPoses \in BOOLEAN, thr \in BOOLEAN :
       LET drawn == mounted
           failed == drawn /\ drawPoseResultsThrows(hasPoses, thr)
           again == ~failed /\ detectionActive
       IN /\ segmentationMask' = IF drawn THEN drawPoseResultsMask(hasPoses)
                                 ELSE segmentationMask
          /\ detectionActive' = (detectionActive /\ ~failed)
          /\ rafPending' = IF again THEN rafPending + 1 ELSE rafPending
          /\ animationFrameId' = IF again THEN "pending" ELSE animationFrameId
          /\ log' = (IF drawn THEN drawPoseResultsLog(hasPoses, thr) ELSE <<>>)
                    \o (IF again THEN <<"reschedule">> ELSE <<>>)
  /\ UNCHANGED <<rev, numVideos, mounted, poseInit, source, video, lastVideoTime>>
  /\ UNCHANGED renderer
  /\ UNCHANGED units
  /\ UNCHANGED clock
  /\ UNCHANGED catalog
  /\ UNCHANGED uploads

\* toggleDetection (lines 257-272): start the loop, or cancel the stored
\* frame request.
toggleDetection ==
  /\ rev = "part_001"
  /\ mounted
  /\ IF ~detectionActive
     THEN /\ rafPending + awaiting < MaxLoops
          /\ webcamReady' = ~usingWebcam
          /\ \E out \in DetectOutcomes :
               runDetectionLoop(TRUE, ~usingWebcam, rafPending,
                                animationFrameId, out)
     ELSE /\ detectionActive' = FALSE
          /\ rafPending' = IF animationFrameId = "pending"
                           THEN rafPending - 1 ELSE rafPending
          /\ animationFrameId' = "null"
          /\ log' = <<>>
          /\ UNCHANGED <<webcamReady, awaiting, segmentationMask, lastStamp,
                         prevStamp>>
  /\ UNCHANGED <<rev, numVideos, mounted, poseInit, video, lastVideoTime, usingWebcam,
                 mediaStream, liveStreams, srcObject, currentVideoSource,
                 camPending, metaHandler>>
  /\ UNCHANGED renderer
  /\ UNCHANGED units
  /\ UNCHANGED <<now, lastFrame>>
  /\ UNCHANGED catalog
  /\ UNCHANGED uploads

\* ------------------------------------------- part_001: source management
\* stopWebcam (lines 312-325) changes the element's source when a stream is
\* attached to it.
stopWebcamDetaches == mounted /\ srcObject

\* The live streams after stopWebcam: the tracks of the held stream stop.
stopWebcamLive == IF mediaStream THEN liveStreams - 1 ELSE liveStreams

\* webcamReady after stopWebcam: reset with usingWebcam, else left alone.
stopWebcamReady == IF usingWebcam THEN FALSE ELSE webcamReady

\* loadRandomVideo (lines 119-139) reaches loadVideo: never with a catalog
\* of one entry (the load is in the else branch), and with an empty catalog
\* selectedVideo is undefined and reading its location throws.
loadRandomVideoLoads == numVideos >= 2

\* cleanupObjectUrl (lines 66-71): the URL held by uploadedObjectUrl is
\* revoked and the ref cleared.
cleanupObjectUrl ==
  /\ liveObjectUrls' = IF uploadedObjectUrl THEN liveObjectUrls - 1
                       ELSE liveObjectUrls
  /\ uploadedObjectUrl' = FALSE

\* loadVideo (lines 112-117), called by loadRandomVideo ("Next").
loadVideo ==
  /\ cleanupObjectUrl
  /\ sourceIsUpload' = FALSE
  /\ mediaStream' = FALSE
  /\ liveStreams' = stopWebcamLive
  /\ srcObject' = (srcObject /\ ~mounted)
  /\ usingWebcam' = FALSE
  /\ webcamReady' = stopWebcamReady
  /\ currentVideoSource' = TRUE
  /\ IF mounted THEN ElementLoad ELSE UNCHANGED video
  /\ UNCHANGED <<camPending, metaHandler>>

\* Variant of LoadRandomVideo that restarts the flag on a source switch.
LoadRandomVideo_ResetsFlag ==
  /\ rev = "part_001"
  /\ mounted
  /\ IF loadRandomVideoLoads THEN loadVideo ELSE UNCHANGED <<source, video, uploads>>
  /\ log' = <<>>
  /\ detectionActive' = FALSE
  /\ UNCHANGED <<rev, numVideos, mounted, poseInit, rafPending,
                 animationFrameId, awaiting, lastVideoTime, segmentationMask>>
  /\ UNCHANGED renderer
  /\ UNCHANGED units
  /\ UNCHANGED clock
  /\ UNCHANGED catalog

\* The "Next" button: loadRandomVideo.
LoadRandomVideo ==
  /\ rev = "part_001"
  /\ mounted
  /\ IF loadRandomVideoLoads THEN loadVideo ELSE UNCHANGED <<source, video, uploads>>
  /\ log' = <<>>
  /\ UNCHANGED <<rev, numVideos, mounted, poseInit, sched, segmentationMask>>
  /\ UNCHANGED renderer
  /\ UNCHANGED units
  /\ UNCHANGED clock
  /\ UNCHANGED catalog

\* activateWebcam up to its await (lines 287-296): cleanupObjectUrl,
\* stopWebcam, then getUserMedia is awaited.
activateWebcam ==
  /\ liveStreams + camPending < MaxStreams
  /\ cleanupObjectUrl
  /\ UNCHANGED sourceIsUpload
  /\ camPending' = camPending + 1
  /\ mediaStream' = FALSE
  /\ liveStreams' = stopWebcamLive
  /\ srcObject' = (srcObject /\ ~stopWebcamDetaches)
  /\ usingWebcam' = FALSE
  /\ webcamReady' = stopWebcamReady
  /\ IF stopWebcamDetaches THEN ElementLoad ELSE UNCHANGED video
  /\ UNCHANGED <<currentVideoSource, metaHandler>>

\* toggleCamera (lines 274-284): back to a random video when the webcam is
\* on, else activate the webcam.
toggleCamera ==
  /\ rev = "part_001"
  /\ mounted
  /\ IF usingWebcam
     THEN IF loadRandomVideoLoads THEN loadVideo ELSE UNCHANGED <<source, video, uploads>>
     ELSE activateWebcam
  /\ log' = <<>>
  /\ UNCHANGED <<rev, numVideos, mounted, poseInit, sched, segmentationMask>>
  /\ UNCHANGED renderer
  /\ UNCHANGED units
  /\ UNCHANGED clock
  /\ UNCHANGED catalog

\* activateWebcam after its await (lines 296-308): getUserMedia resolved
\* with a stream (ok) or rejected. Attaching the stream to a null
\* videoElement throws into the catch block.
CamResolve ==
  /\ rev = "part_001"
  /\ camPending > 0
  /\ camPending' = camPending - 1
  /\ \E ok \in BOOLEAN :
       IF ok
       THEN /\ mediaStream' = TRUE
            /\ liveStreams' = liveStreams + 1
            /\ srcObject' = mounted
            /\ currentVideoSource' = (currentVideoSource /\ ~mounted)
            /\ usingWebcam' = mounted
            /\ webcamReady' = IF mounted THEN FALSE ELSE webcamReady
            /\ IF mounted THEN ElementLoad ELSE UNCHANGED video
       ELSE /\ usingWebcam' = FALSE
            /\ UNCHANGED <<mediaStream, liveStreams, srcObject,
                           currentVideoSource, webcamReady, video>>
  /\ log' = <<>>
  /\ UNCHANGED <<rev, numVideos, mounted, poseInit, sched, segmentationMask,
                 metaHandler>>
  /\ UNCHANGED renderer
  /\ UNCHANGED units
  /\ UNCHANGED clock
  /\ UNCHANGED catalog
  /\ UNCHANGED uploads

\* onVideoLoaded (lines 98-109), the element's loadedmetadata handler: play
\* (the browser may refuse) and set the camera latch.
onVideoLoaded ==
  /\ rev = "part_001"
  /\ mounted
  /\ metaPending
  /\ metaPending' = FALSE
  /\ \E played \in BOOLEAN : paused' = (paused /\ ~played)
  /\ webcamReady' = (webcamReady \/ usingWebcam)
  /\ log' = <<>>
  /\ UNCHANGED <<rev, numVideos, mounted, poseInit, sched, segmentationMask,
                 ended, readyState, currentTime, usingWebcam, mediaStream,
                 liveStreams, srcObject, currentVideoSource, camPending,
                 metaHandler>>
  /\ UNCHANGED renderer
  /\ UNCHANGED units
  /\ UNCHANGED clock
  /\ UNCHANGED catalog
  /\ UNCHANGED uploads

\* onUnmounted (lines 180-188); Vue has cleared the template refs.
onUnmounted ==
  /\ rev = "part_001"
  /\ mounted
  /\ mounted' = FALSE
  /\ mediaStream' = FALSE
  /\ liveStreams' = stopWebcamLive
  /\ usingWebcam' = FALSE
  /\ webcamReady' = stopWebcamReady
  /\ rafPending' = IF animationFrameId = "pending"
                   THEN rafPending - 1 ELSE rafPending
  /\ animationFrameId' = IF animationFrameId = "pending"
                         THEN "stale" ELSE animationFrameId
  /\ detectionActive' = FALSE
  /\ log' = <<>>
  /\ UNCHANGED <<rev, numVideos, poseInit, video, segmentationMask, awaiting,
                 lastVideoTime, srcObject, currentVideoSource, camPending,
                 metaHandler>>
  /\ UNCHANGED renderer
  /\ UNCHANGED units
  /\ UNCHANGED clock
  /\ UNCHANGED catalog
  /\ cleanupObjectUrl
  /\ UNCHANGED sourceIsUpload

\* --------------------------------------------- VideoDisplay: the scheduler
\* runDetectionLoop of VideoDisplay.vue up to its await (lines 154-173),
\* entered with the flag act and pend callbacks pending. It keeps no frame
\* id, checks no readyState, skips a frame whose playback time it has seen,
\* and an exception of detectPoses is logged and the next frame requested.
VD_runDetectionLoop(act, pend, out) ==
  IF ~act \/ ~mounted
  THEN /\ rafPending' = pend
       /\ log' = <<"stop">>
       /\ UNCHANGED <<awaiting, segmentationMask, lastVideoTime, lastStamp,
                      prevStamp,
                      lastFrame>>
  ELSE IF (usingWebcam /\ ~webcamReady) \/ paused \/ ended
  THEN /\ rafPending' = pend + 1
       /\ log' = <<"reschedule">>
       /\ UNCHANGED <<awaiting, segmentationMask, lastVideoTime, lastStamp,
                      prevStamp,
                      lastFrame>>
  ELSE IF lastVideoTime = currentTime
  THEN /\ rafPending' = pend + 1
       /\ log' = <<"reschedule">>
       /\ UNCHANGED <<awaiting, segmentationMask, lastVideoTime, lastStamp,
                      prevStamp,
                      lastFrame>>
  ELSE IF detectPosesThrows(out)
  THEN /\ lastVideoTime' = currentTime
       /\ rafPending' = pend + 1
       /\ log' = (IF poseLandmarker THEN <<"detect">> ELSE <<>>)
                 \o <<"error", "reschedule">>
       /\ lastStamp' = IF poseLandmarker THEN detectTimestamp ELSE lastStamp
       /\ prevStamp' = IF poseLandmarker THEN lastStamp ELSE prevStamp
       /\ lastFrame' = IF poseLandmarker THEN currentTime ELSE lastFrame
       /\ UNCHANGED <<awaiting, segmentationMask>>
  ELSE /\ lastVideoTime' = currentTime
       /\ rafPending' = pend
       /\ awaiting' = awaiting + 1
       /\ segmentationMask' = detectPosesMask(out)
       /\ log' = <<"detect">>
       /\ lastStamp' = detectTimestamp
       /\ prevStamp' = lastStamp
       /\ lastFrame' = currentTime

\* A requestAnimationFrame callback runs VideoDisplay's runDetectionLoop.
VD_Tick ==
  /\ rev = "VideoDisplay"
  /\ rafPending > 0
  /\ \E out \in DetectOutcomes :
       VD_runDetectionLoop(detectionActive, rafPending - 1, out)
  /\ UNCHANGED <<rev, numVideos, mounted, poseInit, source, video,
                 detectionActive, animationFrameId>>
  /\ UNCHANGED renderer
  /\ UNCHANGED units
  /\ UNCHANGED now
  /\ UNCHANGED catalog
  /\ UNCHANGED uploads

\* VideoDisplay's runDetectionLoop after its await (lines 174-180): draw
\* (an exception is logged), then request the next frame unconditionally.
VD_Resume ==
  /\ rev = "VideoDisplay"
  /\ awaiting > 0
  /\ awaiting' = awaiting - 1
  /\ rafPending' = rafPending + 1
  /\ \E hasPoses \in BOOLEAN, thr \in BOOLEAN :
       /\ segmentationMask' = drawPoseResultsMask(hasPoses)
       /\ log' = drawPoseResultsLog(hasPoses, thr) \o <<"reschedule">>
  /\ UNCHANGED <<rev, numVideos, mounted, poseInit, source, video,
                 detectionActive, animationFrameId, lastVideoTime>>
  /\ UNCHANGED renderer
  /\ UNCHANGED units
  /\ UNCHANGED clock
  /\ UNCHANGED catalog
  /\ UNCHANGED uploads

\* toggleDetection of VideoDisplay.vue (lines 184-189): nothing is cancelled.
VD_toggleDetection ==
  /\ rev = "VideoDisplay"
  /\ mounted
  /\ detectionActive' = ~detectionActive
  /\ IF ~detectionActive
     THEN /\ rafPending + awaiting < MaxLoops
          /\ \E out \in DetectOutcomes :
               VD_runDetectionLoop(TRUE, rafPending, out)
     ELSE /\ log' = <<>>
          /\ UNCHANGED <<rafPending, awaiting, segmentationMask, lastVideoTime,
                         lastStamp, prevStamp,
                      lastFrame>>
  /\ UNCHANGED <<rev, numVideos, mounted, poseInit, source, video,
                 animationFrameId>>
  /\ UNCHANGED renderer
  /\ UNCHANGED units
  /\ UNCHANGED now
  /\ UNCHANGED catalog
  /\ UNCHANGED uploads

\* ------------------------------------- VideoDisplay: source management
\* loadDefaultVideo (lines 102-124): stopWebcam only when a stream is held.
VD_loadDefaultVideo ==
  /\ rev = "VideoDisplay"
  /\ mounted
  /\ mediaStream' = FALSE
  /\ liveStreams' = stopWebcamLive
  /\ srcObject' = (srcObject /\ ~mediaStream)
  /\ usingWebcam' = FALSE
  /\ webcamReady' = (webcamReady /\ ~mediaStream)
  /\ currentVideoSource' = TRUE
  /\ metaHandler' = "video"
  /\ ElementLoad
  /\ log' = <<>>
  /\ UNCHANGED <<rev, numVideos, mounted, poseInit, sched, segmentationMask,
                 camPending>>
  /\ UNCHANGED renderer
  /\ UNCHANGED units
  /\ UNCHANGED clock
  /\ UNCHANGED catalog
  /\ UNCHANGED uploads

\* activateWebcam of VideoDisplay.vue up to its await (lines 191-200): the
\* video is paused and its URL cleared; the held stream is not stopped.
VD_activateWebcam ==
  /\ rev = "VideoDisplay"
  /\ mounted
  /\ liveStreams + camPending < MaxStreams
  /\ camPending' = camPending + 1
  /\ currentVideoSource' = FALSE
  /\ IF currentVideoSource
     THEN ElementLoad
     ELSE /\ paused' = TRUE
          /\ UNCHANGED <<ended, readyState, metaPending, currentTime>>
  /\ log' = <<>>
  /\ UNCHANGED <<rev, numVideos, mounted, poseInit, sched, segmentationMask,
                 usingWebcam, webcamReady, mediaStream, liveStreams,
                 srcObject, metaHandler>>
  /\ UNCHANGED renderer
  /\ UNCHANGED units
  /\ UNCHANGED clock
  /\ UNCHANGED catalog
  /\ UNCHANGED uploads

\* activateWebcam of VideoDisplay.vue after its await (lines 200-224).
VD_CamResolve ==
  /\ rev = "VideoDisplay"
  /\ camPending > 0
  /\ camPending' = camPending - 1
  /\ \E ok \in BOOLEAN :
       IF ok
       THEN /\ mediaStream' = TRUE
            /\ liveStreams' = liveStreams + 1
            /\ srcObject' = (srcObject \/ mounted)
            /\ metaHandler' = IF mounted THEN "webcam" ELSE metaHandler
            /\ usingWebcam' = (usingWebcam \/ mounted)
            /\ IF mounted THEN ElementLoad ELSE UNCHANGED video
       ELSE UNCHANGED <<mediaStream, liveStreams, srcObject, metaHandler,
                        usingWebcam, video>>
  /\ log' = <<>>
  /\ UNCHANGED <<rev, numVideos, mounted, poseInit, sched, segmentationMask,
                 webcamReady, currentVideoSource>>
  /\ UNCHANGED renderer
  /\ UNCHANGED units
  /\ UNCHANGED clock
  /\ UNCHANGED catalog
  /\ UNCHANGED uploads

\* videoElement.onloadedmetadata of VideoDisplay.vue: the handler set by
\* loadDefaultVideo (lines 115-122) or by activateWebcam (lines 208-218).
VD_onloadedmetadata ==
  /\ rev = "VideoDisplay"
  /\ mounted
  /\ metaPending
  /\ metaPending' = FALSE
  /\ \E played \in BOOLEAN : paused' = (paused /\ ~played)
  /\ webcamReady' = (webcamReady \/ metaHandler = "webcam")
  /\ log' = <<>>
  /\ UNCHANGED <<rev, numVideos, mounted, poseInit, sched, segmentationMask,
                 ended, readyState, currentTime, usingWebcam, mediaStream,
                 liveStreams, srcObject, currentVideoSource, camPending,
                 metaHandler>>
  /\ UNCHANGED renderer
  /\ UNCHANGED units
  /\ UNCHANGED clock
  /\ UNCHANGED catalog
  /\ UNCHANGED uploads

\* onUnmounted of VideoDisplay.vue (lines 147-151) with stopWebcam (lines
\* 229-244); the flag and the pending frame requests are left alone.
VD_onUnmounted ==
  /\ rev = "VideoDisplay"
  /\ mounted
  /\ mounted' = FALSE
  /\ mediaStream' = FALSE
  /\ liveStreams' = stopWebcamLive
  /\ usingWebcam' = (usingWebcam /\ ~mediaStream)
  /\ webcamReady' = (webcamReady /\ ~mediaStream)
  /\ log' = <<>>
  /\ UNCHANGED <<rev, numVideos, poseInit, sched, video, segmentationMask,
                 srcObject, currentVideoSource, camPending, metaHandler>>
  /\ UNCHANGED renderer
  /\ UNCHANGED units
  /\ UNCHANGED clock
  /\ UNCHANGED catalog
  /\ UNCHANGED uploads

Next ==
  \/ InitializePoseDetection
  \/ ReadyStateChange
  \/ PlaybackChange
  \/ TimeAdvance
  \/ Tick
  \/ Resume
  \/ toggleDetection
  \/ LoadRandomVideo
  \/ toggleCamera
  \/ CamResolve
  \/ onVideoLoaded
  \/ onUnmounted
  \/ VD_Tick
  \/ VD_Resume
  \/ VD_toggleDetection
  \/ VD_loadDefaultVideo
  \/ VD_activateWebcam
  \/ VD_CamResolve
  \/ VD_onloadedmetadata
  \/ VD_onUnmounted

Spec == Init /\ [][Next]_vars

\* ---------------------------------------------------- the render transform
RECURSIVE Gcd(_, _)
Gcd(a, b) == IF b = 0 THEN a ELSE Gcd(b, a % b)
Abs(a) == IF a < 0 THEN -a ELSE a
\* The number n/d (d > 0) in lowest terms. Numbers are exact rationals; what
\* the rounding of double-precision arithmetic makes of the transform is
\* RenderTransform64 below.
Num(n, d) == LET g == Gcd(Abs(n), d) IN [num |-> n \div g, den |-> d \div g]
IsFinite(a) == a.den # 0
\* a / b for integers a, b >= 0: x/0 is Infinity and 0/0 is NaN.
Div(a, b) ==
  IF b # 0 THEN Num(a, b)
  ELSE IF a = 0 THEN NaN ELSE [num |-> 1, den |-> 0]
\* Math.min: NaN if an argument is NaN.
MathMin(a, b) ==
  IF a = NaN \/ b = NaN THEN NaN
  ELSE IF a.num * b.den <= b.num * a.den THEN a ELSE b
MathMax(a, b) ==
  IF a = NaN \/ b = NaN THEN NaN
  ELSE IF a.num * b.den >= b.num * a.den THEN a ELSE b
\* v * s for an integer v >= 0: 0 * Infinity is NaN.
Mul(v, s) ==
  IF IsFinite(s) THEN Num(v * s.num, s.den)
  ELSE IF v = 0 THEN NaN ELSE s
\* c - t for an integer c.
Minus(c, t) ==
  IF IsFinite(t) THEN Num(c * t.den - t.num, t.den)
  ELSE [num |-> -t.num, den |-> 0]
\* a / 2.
Half(a) == IF IsFinite(a) THEN Num(a.num, 2 * a.den) ELSE a

\* ------------------------------- the render transform in double precision
\* JavaScript numbers are IEEE 754 binary64: every operation yields the
\* exact result rounded to a 53-bit significand, ties to even. The
\* significand is kept as a sequence of bits, most significant first, so
\* that no intermediate value exceeds the integers of the checker.
RECURSIVE BitLength(_)
BitLength(n) == IF n = 0 THEN 0 ELSE 1 + BitLength(n \div 2)
RECURSIVE Pow2(_)
Pow2(k) == IF k = 0 THEN 1 ELSE 2 * Pow2(k - 1)
\* The binary digits of the integer c (none for 0).
RECURSIVE Binary(_)
Binary(c) == IF c = 0 THEN <<>> ELSE Binary(c \div 2) \o <<c % 2>>
Zeros(k) == [i \in 1..k |-> 0]
\* The next k quotient bits of r/B for a remainder r < B, and the remainder
\* left after them.
RECURSIVE DivBits(_, _, _)
DivBits(r, B, k) ==
  IF k = 0 THEN <<>>
  ELSE LET t == 2 * r
           bit == IF t >= B THEN 1 ELSE 0
       IN <<bit>> \o DivBits(t - bit * B, B, k - 1)
RECURSIVE DivRem(_, _, _)
DivRem(r, B, k) ==
  IF k = 0 THEN r
  ELSE IF 2 * r >= B THEN DivRem(2 * r - B, B, k - 1)
  ELSE DivRem(2 * r, B, k - 1)
\* bits + 1 (the carry out of the first bit is dropped).
RECURSIVE IncBits(_)
IncBits(bits) ==
  LET n == Len(bits)
  IN IF n = 0 THEN <<>>
     ELSE IF bits[n] = 0 THEN SubSeq(bits, 1, n - 1) \o <<1>>
     ELSE IncBits(SubSeq(bits, 1, n - 1)) \o <<0>>
\* The double with exponent e and significand head, rounded up or not.
Round64(e, head, up) ==
  IF ~up THEN [e |-> e, m |-> head]
  ELSE IF \A i \in 1..Len(head) : head[i] = 1
       THEN [e |-> e + 1, m |-> <<1>> \o Zeros(Len(head) - 1)]
       ELSE [e |-> e, m |-> IncBits(head)]
\* a / b for integers a, b > 0.
Div64(a, b) ==
  LET d == BitLength(a) - BitLength(b)
      A0 == a * Pow2(IF d < 0 THEN -d ELSE 0)
      B == b * Pow2(IF d > 0 THEN d ELSE 0)
      e == IF A0 >= B THEN d ELSE d - 1
      A == IF A0 >= B THEN A0 ELSE 2 * A0
      head == <<1>> \o DivBits(A - B, B, MantissaBits - 1)
      r == DivRem(A - B, B, MantissaBits - 1)
      up == 2 * r > B \/ (2 * r = B /\ head[MantissaBits] = 1)
  IN Round64(e, head, up)
\* The product of the integer given by bits and n, plus the carry c.
RECURSIVE MulBits(_, _, _)
MulBits(bits, n, c) ==
  IF bits = <<>> THEN Binary(c)
  ELSE LET k == Len(bits)
           t == bits[k] * n + c
       IN IF t % 2 = 0
          THEN MulBits(SubSeq(bits, 1, k - 1), n, t \div 2) \o <<0>>
          ELSE MulBits(SubSeq(bits, 1, k - 1), n, t \div 2) \o <<1>>
\* n * x for an integer n > 0 and a double x.
Mul64(n, x) ==
  LET P == MulBits(x.m, n, 0)
      L == Len(P) - MantissaBits
      head == SubSeq(P, 1, MantissaBits)
      up == /\ L > 0
            /\ P[MantissaBits + 1] = 1
            /\ \/ head[MantissaBits] = 1
               \/ \E i \in (MantissaBits + 2)..Len(P) : P[i] = 1
  IN Round64(x.e + L, head, up)
\* Bit sequences of one length compared as numbers: -1, 0 or 1.
LexCmp(a, b) ==
  IF a = b THEN 0
  ELSE LET i == CHOOSE i \in 1..Len(a) :
                  a[i] # b[i] /\ \A j \in 1..(i - 1) : a[j] = b[j]
       IN IF a[i] > b[i] THEN 1 ELSE -1
\* The sign of x - y for doubles x, y.
Cmp64(x, y) ==
  IF x.e # y.e THEN (IF x.e > y.e THEN 1 ELSE -1) ELSE LexCmp(x.m, y.m)
\* The integer n > 0 as a double (exact for the sizes of a canvas).
Int64(n) ==
  LET b == Binary(n)
  IN [e |-> Len(b) - 1, m |-> b \o Zeros(MantissaBits - Len(b))]
Min64(x, y) == IF Cmp64(x, y) <= 0 THEN x ELSE y

\* The render transform (poseDetection.js lines 102-107, part_003 lines
\* 79-84) as double-precision evaluation yields it for positive dimensions:
\* the scale, the scaled sides videoWidth * scale and videoHeight * scale,
\* and the signs of the offsets. c - t is 0 exactly when c = t and has the
\* sign of the exact difference otherwise; halving keeps the sign.
RenderTransform64(cw, ch, vw, vh) ==
  LET scaleX == Div64(cw, vw)
      scaleY == Div64(ch, vh)
      scale == Min64(scaleX, scaleY)
      w == Mul64(vw, scale)
      h == Mul64(vh, scale)
  IN [scale |-> scale, width |-> w, height |-> h,
      offsetX |-> Cmp64(Int64(cw), w),
      offsetY |-> Cmp64(Int64(ch), h)]

\* Variant of RenderTransform that takes the larger of the two ratios.
RenderTransform_Max(cw, ch, vw, vh) ==
  LET scaleX == Div(cw, vw)
      scaleY == Div(ch, vh)
      scale == MathMax(scaleX, scaleY)
  IN [scale |-> scale,
      offsetX |-> Half(Minus(cw, Mul(vw, scale))),
      offsetY |-> Half(Minus(ch, Mul(vh, scale)))]

\* The letterbox transform of drawPoseResults (poseDetection.js lines
\* 97-107) for a canvas of cw x ch and a video of vw x vh pixels.
RenderTransform(cw, ch, vw, vh) ==
  LET scaleX == Div(cw, vw)
      scaleY == Div(ch, vh)
      scale == MathMin(scaleX, scaleY)
  IN [scale |-> scale,
      offsetX |-> Half(Minus(cw, Mul(vw, scale))),
      offsetY |-> Half(Minus(ch, Mul(vh, scale)))]

\* The transform is computed for the dimensions given.
ComputeTransform ==
  /\ call = "none"
  /\ call' = "renderTransform"
  /\ transform' = RenderTransform(dims[1], dims[2], dims[3], dims[4])
  /\ transform64' = RenderTransform64(dims[1], dims[2], dims[3], dims[4])
  /\ UNCHANGED <<rev, numVideos, mounted, poseInit, sched, source, video,
                 segmentationMask, log>>
  /\ UNCHANGED <<drawRev, pending, maskOf, rendered, ops, canvasW, canvasH,
                 ctxStack, ctxTransformed, overlay, landmarks, box, dims>>
  /\ UNCHANGED maskVars
  /\ UNCHANGED clock
  /\ UNCHANGED catalog
  /\ UNCHANGED uploads

\* The transform alone, on every positive input within the bounds and on
\* the worked examples.
Init_transform ==
  /\ InitComponent
  /\ InitRenderer
  /\ rev = "part_001"
  /\ numVideos = 2
  /\ dims \in TransformInputs
  /\ transform = NoTransform
  /\ transform64 = NoTransform64
  /\ mask = NoMask
  /\ maskCanvas = NoCanvas
  /\ reusableImageData = NoImageData
  /\ lastMaskWidth = -1
  /\ lastMaskHeight = -1

Next_transform == ComputeTransform

TransformSpec == Init_transform /\ [][Next_transform]_vars

\* ------------------------------------------------------------ the renderer
\* The DrawingUtils calls of the per-pose loop for n poses, in call order:
\* poseDetection.js draws connectors then landmarks (lines 118-129),
\* part_003 (lines 90-101) and part_000 (lines 353-366) landmarks first.
SkeletonCalls(r, n) ==
  [j \in 1..(2 * n) |->
     <<IF (j % 2 = 1) = (r = "poseDetection")
       THEN "drawConnectors" ELSE "drawLandmarks",
       (j + 1) \div 2>>]

\* drawPoseResults gets past its early returns: the drawing utility is set,
\* the result has poses and, in poseDetection.js only (line 100), the video
\* dimensions are known.
drawPoseResultsReached(r, res, vw, vh) ==
  /\ drawingUtils
  /\ res.nPoses > 0
  /\ (r = "poseDetection" => (vw # 0 /\ vh # 0))

\* Variant of drawPoseResultsOps that keeps the transform of the canvas as it
\* was first set up (1 x 1) instead of reading the canvas at each call.
drawPoseResultsOps_CachedCanvas(r, res, vw, vh, k) ==
  IF ~drawingUtils THEN <<>>
  ELSE << <<"clearRect", 0>> >> \o
       IF ~drawPoseResultsReached(r, res, vw, vh) THEN <<>>
       ELSE LET t == RenderTransform(1, 1, vw, vh)
            IN << <<"save", 0>>, <<"translate", <<t.offsetX, t.offsetY>> >>,
                  <<"scale", t.scale>> >> \o
            (IF r = "poseDetection" /\ segmentationMask # "null"
             THEN << <<"drawManualMask", maskOf>> >> ELSE <<>>) \o
            (IF k = 0
             THEN SkeletonCalls(r, res.nPoses) \o << <<"restore", 0>> >>
             ELSE SubSeq(SkeletonCalls(r, res.nPoses), 1, k - 1)
                  \o << <<"error", (k + 1) \div 2>> >>)

\* The canvas operations of one drawPoseResults call, in order; k > 0 means
\* that the k-th DrawingUtils call of the loop raises an error, k = 0 that
\* none does. An error inside drawManualMask is caught there (lines 189-191).
\* translate carries <<offsetX, offsetY>> and scale the scale factor.
drawPoseResultsOps(r, res, vw, vh, k) ==
  IF ~drawingUtils THEN <<>>
  ELSE << <<"clearRect", 0>> >> \o
       IF ~drawPoseResultsReached(r, res, vw, vh) THEN <<>>
       ELSE LET t == RenderTransform(canvasW, canvasH, vw, vh)
            IN << <<"save", 0>>, <<"translate", <<t.offsetX, t.offsetY>> >>,
                  <<"scale", t.scale>> >> \o
            (IF r = "poseDetection" /\ segmentationMask # "null"
             THEN << <<"drawManualMask", maskOf>> >> ELSE <<>>) \o
            (IF k = 0
             THEN SkeletonCalls(r, res.nPoses) \o << <<"restore", 0>> >>
             ELSE SubSeq(SkeletonCalls(r, res.nPoses), 1, k - 1)
                  \o << <<"error", (k + 1) \div 2>> >>)

\* translate(offsetX, offsetY) and scale(scale, scale) leave the transform
\* as it was: the offsets are 0 and the scale is 1 (the canvas has the
\* video's dimensions), or the arguments are not finite and the context
\* ignores the call (a video dimension of 0 in part_003 and part_000).
TransformIdentity(vw, vh) ==
  LET t == RenderTransform(canvasW, canvasH, vw, vh)
  IN /\ \/ ~IsFinite(t.offsetX)
        \/ ~IsFinite(t.offsetY)
        \/ (t.offsetX = Zero /\ t.offsetY = Zero)
     /\ (~IsFinite(t.scale) \/ t.scale = One)

\* detectPoses returns a result (lines 59-76); poseDetection.js keeps its
\* first mask in segmentationMask. More than one result is pending only
\* while more than one loop invocation is suspended (awaiting > 1).
DetectPoses ==
  /\ poseLandmarker
  /\ Len(pending) < MaxLoops
  /\ call' = "detectPoses"
  /\ \E res \in Results :
       /\ res.id # maskOf
       /\ \A i \in 1..Len(pending) : pending[i].id # res.id
       /\ \A j \in 1..(res.id - 1) :
            j = maskOf \/ \E i \in 1..Len(pending) : pending[i].id = j
       /\ pending' = Append(pending, res)
       /\ IF drawRev = "poseDetection"
          THEN /\ segmentationMask' = IF res.hasMask THEN "open" ELSE "null"
               /\ maskOf' = IF res.hasMask THEN res.id ELSE 0
          ELSE UNCHANGED <<segmentationMask, maskOf>>
  /\ rendered' = NoResult
  /\ ops' = <<>>
  /\ UNCHANGED <<rev, numVideos, mounted, poseInit, sched, source, video, log>>
  /\ UNCHANGED <<drawRev, canvasW, canvasH, ctxStack, ctxTransformed, overlay,
                 landmarks, box>>
  /\ UNCHANGED units
  /\ UNCHANGED clock
  /\ UNCHANGED catalog
  /\ UNCHANGED uploads

\* drawPoseResults is called with the oldest pending result, on a video of
\* vw x vh pixels. An error raised by a DrawingUtils call leaves the function
\* before ctx.restore(). clearRect under a transform left by an earlier call
\* clears the transformed rectangle, which covers the canvas or does not.
DrawPoseResults ==
  /\ pending # <<>>
  /\ call' = "drawPoseResults"
  /\ pending' = Tail(pending)
  /\ \E vw \in Dims, vh \in Dims, k \in 0..(2 * MaxPoses), covers \in BOOLEAN :
       LET res == Head(pending)
           reached == drawPoseResultsReached(drawRev, res, vw, vh)
           threw == reached /\ k > 0
           masked == reached /\ drawRev = "poseDetection"
                     /\ segmentationMask # "null"
           drew == reached /\ canvasW > 0 /\ canvasH > 0
                   /\ (masked \/ k # 1)
       IN /\ k <= 2 * res.nPoses
          /\ (~reached => k = 0)
          /\ (~(ctxTransformed /\ overlay) => covers)
          /\ (threw => Len(ctxStack) < MaxDepth)
          /\ ops' = drawPoseResultsOps(drawRev, res, vw, vh, k)
          /\ rendered' = [id |-> res.id, nPoses |-> res.nPoses,
                          hasMask |-> res.hasMask, vw |-> vw, vh |-> vh,
                          threw |-> threw]
          /\ segmentationMask' = IF masked THEN "closed" ELSE segmentationMask
          /\ ctxStack' = IF threw THEN Append(ctxStack, ctxTransformed)
                         ELSE ctxStack
          /\ ctxTransformed' = IF threw
                               THEN ctxTransformed \/ ~TransformIdentity(vw, vh)
                               ELSE ctxTransformed
          /\ overlay' = IF drawingUtils
                        THEN (ctxTransformed /\ overlay /\ ~covers) \/ drew
                        ELSE overlay
  /\ UNCHANGED <<rev, numVideos, mounted, poseInit, sched, source, video, log>>
  /\ UNCHANGED <<drawRev, maskOf, canvasW, canvasH, landmarks, box>>
  /\ UNCHANGED units
  /\ UNCHANGED clock
  /\ UNCHANGED catalog
  /\ UNCHANGED uploads

\* updateCanvasSize (part_001 lines 74-87) assigns canvas.width and
\* canvas.height, which empties the bitmap and resets the context state.
UpdateCanvasSize ==
  /\ call' = "updateCanvasSize"
  /\ \E w \in Dims, h \in Dims :
       /\ <<w, h>> # <<canvasW, canvasH>>
       /\ canvasW' = w
       /\ canvasH' = h
  /\ ctxStack' = <<>>
  /\ ctxTransformed' = FALSE
  /\ overlay' = FALSE
  /\ rendered' = NoResult
  /\ ops' = <<>>
  /\ UNCHANGED <<rev, numVideos, mounted, poseInit, sched, source, video,
                 segmentationMask, log>>
  /\ UNCHANGED <<drawRev, pending, maskOf, landmarks, box>>
  /\ UNCHANGED units
  /\ UNCHANGED clock
  /\ UNCHANGED catalog
  /\ UNCHANGED uploads

\* The renderer alone: any sequence of detections, draws and canvas resizes,
\* for each revision of drawPoseResults.
Init_render ==
  /\ InitComponent
  /\ InitUnits
  /\ rev = "part_001"
  /\ numVideos = 2
  /\ call = "none"
  /\ drawRev \in DrawRevisions
  /\ pending = <<>>
  /\ maskOf = 0
  /\ rendered = NoResult
  /\ ops = <<>>
  /\ canvasW \in Dims
  /\ canvasH \in Dims
  /\ ctxStack = <<>>
  /\ ctxTransformed = FALSE
  /\ overlay = FALSE
  /\ landmarks = NoLandmarks
  /\ box = NoBox

Next_render ==
  \/ InitializePoseDetection
  \/ DetectPoses
  \/ DrawPoseResults
  \/ UpdateCanvasSize

RenderSpec == Init_render /\ [][Next_render]_vars

\* --------------------------------------------------- bounding-box functions
Min(a, b) == IF a <= b THEN a ELSE b
Max(a, b) == IF a >= b THEN a ELSE b

\* The loop of part_002 lines 36-41 (poseDrawingUtils.js lines 37-42) over
\* the landmarks not yet visited.
RECURSIVE BoxFold(_, _)
BoxFold(pts, acc) ==
  IF pts = <<>> THEN acc
  ELSE BoxFold(Tail(pts),
               [minX |-> Min(acc.minX, Head(pts).x),
                minY |-> Min(acc.minY, Head(pts).y),
                maxX |-> Max(acc.maxX, Head(pts).x),
                maxY |-> Max(acc.maxY, Head(pts).y)])

\* Variant of calculatePoseBoundingBox that starts both running maxima at
\* 1.0, as the minima.
calculatePoseBoundingBox_MaxFromOne(lm) ==
  IF ~lm.present \/ Len(lm.pts) = 0 THEN NoBox
  ELSE LET f == BoxFold(lm.pts, [minX |-> Scale, minY |-> Scale,
                                 maxX |-> Scale, maxY |-> Scale])
       IN IF f.minX <= f.maxX /\ f.minY <= f.maxY
          THEN [defined |-> TRUE, minX |-> f.minX, minY |-> f.minY,
                maxX |-> f.maxX, maxY |-> f.maxY,
                normalizedWidth |-> f.maxX - f.minX,
                normalizedHeight |-> f.maxY - f.minY]
          ELSE NoBox

\* calculatePoseBoundingBox (part_002 lines 29-55): minima start at 1.0,
\* maxima at 0.0.
calculatePoseBoundingBox(lm) ==
  IF ~lm.present \/ Len(lm.pts) = 0 THEN NoBox
  ELSE LET f == BoxFold(lm.pts, [minX |-> Scale, minY |-> Scale,
                                 maxX |-> 0, maxY |-> 0])
       IN IF f.minX <= f.maxX /\ f.minY <= f.maxY
          THEN [defined |-> TRUE, minX |-> f.minX, minY |-> f.minY,
                maxX |-> f.maxX, maxY |-> f.maxY,
                normalizedWidth |-> f.maxX - f.minX,
                normalizedHeight |-> f.maxY - f.minY]
          ELSE NoBox

\* Variant of drawPoseBoundingBox without the null check.
drawPoseBoundingBox_NoNullCheck(b, vw, vh) ==
  << <<"save">>,
     <<"strokeRect", b.minX * vw, b.minY * vh,
       b.normalizedWidth * vw, b.normalizedHeight * vh>>,
     <<"restore">> >>

\* drawPoseBoundingBox (part_002 lines 64-79): the canvas operations made
\* for the box b on a video of vw x vh pixels.
drawPoseBoundingBox(b, vw, vh) ==
  IF ~b.defined THEN <<>>
  ELSE << <<"save">>,
          <<"strokeRect", b.minX * vw, b.minY * vh,
            b.normalizedWidth * vw, b.normalizedHeight * vh>>,
          <<"restore">> >>

\* drawPoseBoundingBox of poseDrawingUtils.js (lines 30-56): computes the
\* box from the landmarks itself and strokes it.
PDU_drawPoseBoundingBox(lm, vw, vh) ==
  IF ~lm.present \/ Len(lm.pts) = 0 THEN <<>>
  ELSE LET f == BoxFold(lm.pts, [minX |-> Scale, minY |-> Scale,
                                 maxX |-> 0, maxY |-> 0])
       IN IF f.minX <= f.maxX /\ f.minY <= f.maxY
          THEN << <<"save">>,
                  <<"strokeRect", f.minX * vw, f.minY * vh,
                    (f.maxX - f.minX) * vw, (f.maxY - f.minY) * vh>>,
                  <<"restore">> >>
          ELSE <<>>

\* One pose's landmarks are given to the bounding-box code, on a video of
\* vw x vh pixels.
BoundingBox ==
  /\ call = "none"
  /\ call' = "boundingBox"
  /\ \E vw \in 1..MaxDim, vh \in 1..MaxDim :
       /\ rendered' = [NoResult EXCEPT !.vw = vw, !.vh = vh]
       /\ IF drawRev = "part_002"
          THEN /\ box' = calculatePoseBoundingBox(landmarks)
               /\ ops' = drawPoseBoundingBox(box', vw, vh)
          ELSE /\ box' = NoBox
               /\ ops' = PDU_drawPoseBoundingBox(landmarks, vw, vh)
  /\ UNCHANGED <<rev, numVideos, mounted, poseInit, sched, source, video,
                 segmentationMask, log>>
  /\ UNCHANGED <<drawRev, pending, maskOf, canvasW, canvasH, ctxStack,
                 ctxTransformed, overlay, landmarks>>
  /\ UNCHANGED units
  /\ UNCHANGED clock
  /\ UNCHANGED catalog
  /\ UNCHANGED uploads

\* The bounding-box code alone, on every landmark sequence within the bounds.
Init_box ==
  /\ InitComponent
  /\ InitUnits
  /\ rev = "part_001"
  /\ numVideos = 2
  /\ call = "none"
  /\ drawRev \in BoxRevisions
  /\ pending = <<>>
  /\ maskOf = 0
  /\ rendered = NoResult
  /\ ops = <<>>
  /\ canvasW = 1
  /\ canvasH = 1
  /\ ctxStack = <<>>
  /\ ctxTransformed = FALSE
  /\ overlay = FALSE
  /\ landmarks \in LandmarkInputs
  /\ box = NoBox

Next_box == BoundingBox

BoxSpec == Init_box /\ [][Next_box]_vars

\* ------------------------------------------------------- the mask drawing
\* Math.floor(maskValue * maskOpacity * 255) for the confidence c/ConfSteps.
MaskAlpha_FullOpacity(c) == (c * AlphaMax) \div ConfSteps

MaskAlpha(c) == (c * maskOpacityTenths * AlphaMax) \div (10 * ConfSteps)

\* The colorize loop (part_002 lines 130-137, poseDetection.js lines
\* 175-182): one RGBA cell per cell of the mask.
Colorize(m) ==
  [i \in 1..(m.width * m.height) |->
     <<maskColor.r, maskColor.g, maskColor.b, MaskAlpha(m.data[i])>>]

\* ensureMaskCanvasInitialized (part_002 lines 10-21): the canvas after the
\* call; ctxOk says whether getContext returns a context for a new canvas.
ensureMaskCanvasInitialized(ctxOk) ==
  IF maskCanvas.made > 0 THEN maskCanvas
  ELSE IF ctxOk
  THEN [made |-> 1, width |-> CanvasDefaultWidth,
        height |-> CanvasDefaultHeight]
  ELSE NoCanvas

\* Variant of MaskBlit that scales the blit to the canvas.
MaskBlit_CanvasDims(vw, vh) == <<"drawImage", <<0, 0, canvasW, canvasH>> >>

\* targetCtx.drawImage(maskCanvas, 0, 0, videoWidth, videoHeight).
MaskBlit(vw, vh) == <<"drawImage", <<0, 0, vw, vh>> >>

\* Variant of MaskImageStale that reuses whatever ImageData is cached.
MaskImageStale_ReuseAny(m, resized) ==
  ~reusableImageData.present

\* The cached ImageData cannot be reused for the mask m (part_002 line 120,
\* poseDetection.js line 163); resized: the scratch canvas had other
\* dimensions and the cache was dropped.
MaskImageStale(m, resized) ==
  \/ resized
  \/ ~reusableImageData.present
  \/ m.width # lastMaskWidth
  \/ m.height # lastMaskHeight

\* drawManualMask is called with a mask, on a video of vw x vh pixels.
\* createImageData raises an error for a width or height of 0; every error
\* is caught inside, and the mask is closed on every path.
DrawManualMask ==
  /\ call' = "drawManualMask"
  /\ \E m \in Masks, vw \in 1..MaxDim, vh \in 1..MaxDim, ctxOk \in BOOLEAN :
       LET canvas == IF drawRev = "part_002"
                     THEN ensureMaskCanvasInitialized(ctxOk) ELSE maskCanvas
           resized == canvas.width # m.width \/ canvas.height # m.height
           stale == MaskImageStale(m, resized)
           fails == stale /\ (m.width = 0 \/ m.height = 0)
           image == IF stale
                    THEN [present |-> TRUE, width |-> m.width,
                          height |-> m.height,
                          data |-> [i \in 1..(m.width * m.height) |->
                                      <<0, 0, 0, 0>>]]
                    ELSE reusableImageData
       IN /\ (drawRev = "poseDetection" => (m.present /\ ctxOk))
          /\ (maskCanvas.made > 0 => ctxOk)
          /\ mask' = m
          /\ rendered' = [NoResult EXCEPT !.vw = vw, !.vh = vh]
          /\ IF ~m.present
             THEN /\ ops' = <<>>
                  /\ UNCHANGED <<maskCanvas, reusableImageData, lastMaskWidth,
                                 lastMaskHeight>>
             ELSE IF canvas.made = 0
             THEN /\ ops' = << <<"close", 0>> >>
                  /\ maskCanvas' = canvas
                  /\ UNCHANGED <<reusableImageData, lastMaskWidth,
                                 lastMaskHeight>>
             ELSE /\ maskCanvas' = [canvas EXCEPT !.width = m.width,
                                                  !.height = m.height]
                  /\ IF fails
                     THEN /\ reusableImageData' = NoImageData
                          /\ lastMaskWidth' = -1
                          /\ lastMaskHeight' = -1
                          /\ ops' = << <<"error", 0>>, <<"close", 0>> >>
                     ELSE /\ reusableImageData' =
                               [image EXCEPT !.data = Colorize(m)]
                          /\ lastMaskWidth' = m.width
                          /\ lastMaskHeight' = m.height
                          /\ ops' = << <<"putImageData", image.width * image.height>>,
                                       MaskBlit(vw, vh), <<"close", 0>> >>
  /\ UNCHANGED <<rev, numVideos, mounted, poseInit, sched, source, video,
                 segmentationMask, log>>
  /\ UNCHANGED <<drawRev, pending, maskOf, canvasW, canvasH, ctxStack,
                 ctxTransformed, overlay, landmarks, box, dims, transform,
                 transform64>>
  /\ UNCHANGED clock
  /\ UNCHANGED catalog
  /\ UNCHANGED uploads

\* drawManualMask alone, on every sequence of masks within the bounds. In
\* poseDetection.js the scratch canvas exists when drawPoseResults can call
\* drawManualMask (created at line 43 of initializePoseDetection).
Init_mask ==
  /\ InitComponent
  /\ rev = "part_001"
  /\ numVideos = 2
  /\ call = "none"
  /\ drawRev \in MaskRevisions
  /\ pending = <<>>
  /\ maskOf = 0
  /\ rendered = NoResult
  /\ ops = <<>>
  /\ canvasW \in 1..MaxDim
  /\ canvasH = 1
  /\ ctxStack = <<>>
  /\ ctxTransformed = FALSE
  /\ overlay = FALSE
  /\ landmarks = NoLandmarks
  /\ box = NoBox
  /\ dims = <<1, 1, 1, 1>>
  /\ transform = NoTransform
  /\ transform64 = NoTransform64
  /\ mask = NoMask
  /\ maskCanvas = IF drawRev = "poseDetection"
                  THEN [made |-> 1, width |-> CanvasDefaultWidth,
                        height |-> CanvasDefaultHeight]
                  ELSE NoCanvas
  /\ reusableImageData = NoImageData
  /\ lastMaskWidth = -1
  /\ lastMaskHeight = -1

Next_mask == DrawManualMask

MaskSpec == Init_mask /\ [][Next_mask]_vars

\* The drawing helpers called on their own: the bounding-box code on one
\* pose's landmarks, or drawManualMask on a sequence of masks.
Init_utils == Init_box \/ Init_mask

Next_utils ==
  \/ (drawRev \in BoxRevisions /\ BoundingBox)
  \/ (drawRev \in MaskRevisions /\ landmarks = NoLandmarks
        /\ call # "boundingBox" /\ DrawManualMask)

DrawUtilsSpec == Init_utils /\ [][Next_utils]_vars

\* ---------------------------------------------------------------- the clock
\* Time passes between two handlers: performance.now() never goes back.
ClockAdvance ==
  /\ now < MaxClock
  /\ now' = now + 1
  /\ log' = <<>>
  /\ UNCHANGED <<rev, numVideos, mounted, poseInit, sched, source, video,
                 segmentationMask, lastStamp, prevStamp, lastFrame>>
  /\ UNCHANGED renderer
  /\ UNCHANGED units
  /\ UNCHANGED catalog
  /\ UNCHANGED uploads

\* The schedulers of both components with a running clock, over stop/start
\* toggles and switches between catalog videos.
Next_clock ==
  \/ ClockAdvance
  \/ InitializePoseDetection
  \/ ReadyStateChange
  \/ PlaybackChange
  \/ TimeAdvance
  \/ Tick
  \/ Resume
  \/ toggleDetection
  \/ LoadRandomVideo
  \/ onVideoLoaded
  \/ VD_Tick
  \/ VD_Resume
  \/ VD_toggleDetection
  \/ VD_loadDefaultVideo
  \/ VD_onloadedmetadata

ClockSpec == Init /\ [][Next_clock]_vars

\* The newest component alone, with the scheduling the browser guarantees: a
\* requested animation frame is delivered, and the awaited detection (a
\* synchronous call in poseDetection.js) settles.
Init_part001 == Init /\ rev = "part_001"

Next_part001 ==
  \/ InitializePoseDetection
  \/ ReadyStateChange
  \/ PlaybackChange
  \/ Tick
  \/ Resume
  \/ toggleDetection
  \/ LoadRandomVideo
  \/ toggleCamera
  \/ CamResolve
  \/ onVideoLoaded
  \/ onUnmounted

Fairness == WF_vars(Tick) /\ WF_vars(Resume)

LiveSpec == Init_part001 /\ [][Next_part001]_vars /\ Fairness

\* ------------------------------------- part_001: loadRandomVideo, stepwise
\* loadRandomVideo (lines 119-139) with its do-while loop unrolled: one
\* step enters the function, one step per iteration draws an index. The
\* component-level LoadRandomVideo above is the same function taken as one
\* step, without lastVideoIndex.

\* Math.floor(Math.random() * n) (line 131): Math.random() is in [0, 1), so
\* the index is in 0..n-1, and 0 when n = 0.
RandomIndices(n) == IF n = 0 THEN {0} ELSE 0..(n - 1)

\* Variant of drawAgain that accepts every index drawn.
drawAgain_Never(i) == FALSE

\* The do-while condition (line 132): draw again when the index is the one
\* recorded last.
drawAgain(i) == i = lastVideoIndex

\* loadRandomVideo up to its loop (lines 119-129), called by the mounted
\* hook, the button or toggleCamera: a catalog of one entry assigns
\* randomIndex = 0 and returns; any other size, zero included, enters the
\* do-while.
loadRandomVideoEnter ==
  /\ rev = "part_001"
  /\ mounted
  /\ lrv = "idle"
  /\ IF numVideos = 1
     THEN /\ randomIndex' = 0
          /\ lrv' = "idle"
     ELSE /\ randomIndex' = -1
          /\ lrv' = "loop"
  /\ log' = <<>>
  /\ UNCHANGED <<lastVideoIndex, selectedVideo>>
  /\ UNCHANGED <<rev, numVideos, mounted, poseInit, sched, source, video,
                 segmentationMask>>
  /\ UNCHANGED renderer
  /\ UNCHANGED units
  /\ UNCHANGED clock
  /\ UNCHANGED uploads

\* One iteration of the do-while (lines 130-132) and, when it exits, the
\* rest of the function (lines 133-137): the index is recorded, then the
\* selected entry is read and loaded. With an empty catalog the entry is
\* undefined and reading its location throws after the index is recorded.
loadRandomVideoDraw ==
  /\ lrv = "loop"
  /\ \E i \in RandomIndices(numVideos) :
       /\ randomIndex' = i
       /\ IF drawAgain(i)
          THEN /\ lrv' = "loop"
               /\ log' = <<>>
               /\ UNCHANGED <<lastVideoIndex, selectedVideo, source, video,
                              uploads>>
          ELSE /\ lrv' = "idle"
               /\ lastVideoIndex' = i
               /\ IF i < numVideos
                  THEN /\ selectedVideo' = i
                       /\ loadVideo
                       /\ log' = <<>>
                  ELSE /\ log' = <<"error">>
                       /\ UNCHANGED <<selectedVideo, source, video, uploads>>
  /\ UNCHANGED <<rev, numVideos, mounted, poseInit, sched, segmentationMask>>
  /\ UNCHANGED renderer
  /\ UNCHANGED units
  /\ UNCHANGED clock

\* The iteration that leaves the loop.
loadRandomVideoExit == loadRandomVideoDraw /\ lrv' = "idle"

Init_catalog ==
  /\ InitComponentOf(0..MaxVideos)
  /\ InitRenderer
  /\ InitUnits
  /\ rev = "part_001"

\* loadRandomVideo between the other handlers of the source: the page is
\* single-threaded, so no handler runs while the loop does. toggleCamera
\* with the webcam on is a call of loadRandomVideo (loadRandomVideoEnter).
Next_catalog ==
  \/ loadRandomVideoEnter
  \/ loadRandomVideoDraw
  \/ lrv = "idle" /\ ReadyStateChange
  \/ lrv = "idle" /\ PlaybackChange
  \/ lrv = "idle" /\ ~usingWebcam /\ toggleCamera
  \/ lrv = "idle" /\ CamResolve
  \/ lrv = "idle" /\ onVideoLoaded

\* Fair random choice: an index that leaves the loop, possible at every
\* iteration, is eventually drawn.
CatalogSpec ==
  Init_catalog /\ [][Next_catalog]_vars /\ WF_vars(loadRandomVideoExit)

\* ------------------------------------------------- part_000: the scheduler
\* The older component src/unnamed/part_000 holds its own poseLandmarker and
\* calls detectForVideo with a callback: runDetectionLoop has no await.

\* runDetectionLoop of part_000 (lines 282-316), entered with the flag act,
\* the landmarker lm, lastVideoTime = last and pend callbacks pending. out
\* is what detectForVideo does, thr whether its callback's drawPoseResults
\* throws; both exceptions are caught at line 307.
P0_runDetectionLoop(act, lm, last, pend, out, thr) ==
  IF ~act \/ ~lm \/ ~mounted
  THEN /\ rafPending' = pend
       /\ lastVideoTime' = last
       /\ log' = <<"stop">>
       /\ UNCHANGED <<lastStamp, prevStamp, lastFrame>>
  ELSE IF paused \/ ended \/ last = currentTime
  THEN /\ rafPending' = pend + 1
       /\ lastVideoTime' = last
       /\ log' = <<"reschedule">>
       /\ UNCHANGED <<lastStamp, prevStamp, lastFrame>>
  ELSE /\ rafPending' = pend + 1
       /\ lastVideoTime' = currentTime
       /\ log' = <<"detect">>
                 \o (IF out = "throw" THEN <<"error">>
                     ELSE IF thr THEN <<"render", "error">>
                     ELSE <<"render">>)
                 \o <<"reschedule">>
       /\ lastStamp' = detectTimestamp
       /\ prevStamp' = lastStamp
       /\ lastFrame' = currentTime

\* A requestAnimationFrame callback runs part_000's runDetectionLoop.
P0_Tick ==
  /\ rev = "part_000"
  /\ rafPending > 0
  /\ \E out \in DetectOutcomes, thr \in BOOLEAN :
       P0_runDetectionLoop(detectionActive, poseLandmarker, lastVideoTime,
                           rafPending - 1, out, thr)
  /\ UNCHANGED <<rev, numVideos, mounted, poseInit, source, video,
                 detectionActive, animationFrameId, awaiting, segmentationMask>>
  /\ UNCHANGED renderer
  /\ UNCHANGED units
  /\ UNCHANGED now
  /\ UNCHANGED catalog
  /\ UNCHANGED uploads

\* toggleDetection of part_000 (lines 258-279) up to its await: stop; or,
\* with a landmarker, start with lastVideoTime reset to -1; or, without
\* one, initializePoseDetection is awaited (P0_InitResolve continues).
P0_toggleDetection ==
  /\ rev = "part_000"
  /\ mounted
  /\ IF detectionActive
     THEN /\ detectionActive' = FALSE
          /\ log' = <<>>
          /\ UNCHANGED <<poseInit, rafPending, lastVideoTime, lastStamp,
                         prevStamp, lastFrame>>
     ELSE IF poseLandmarker
     THEN /\ rafPending < MaxLoops
          /\ detectionActive' = TRUE
          /\ \E out \in DetectOutcomes, thr \in BOOLEAN :
               P0_runDetectionLoop(TRUE, TRUE, -1, rafPending, out, thr)
          /\ UNCHANGED poseInit
     ELSE /\ poseInit' = "pending"
          /\ log' = <<>>
          /\ UNCHANGED <<detectionActive, rafPending, lastVideoTime, lastStamp,
                         prevStamp, lastFrame>>
  /\ UNCHANGED <<rev, numVideos, mounted, source, video, animationFrameId,
                 awaiting, segmentationMask>>
  /\ UNCHANGED renderer
  /\ UNCHANGED units
  /\ UNCHANGED now
  /\ UNCHANGED catalog
  /\ UNCHANGED uploads

\* initializePoseDetection of part_000 (lines 204-235) settles and its
\* caller continues: after a success toggleDetection (lines 272-277) and
\* the mounted hook (line 98) both start detection; after a failure
\* nothing is started (the hook's toggleDetection call is a
\* P0_toggleDetection step).
P0_InitResolve ==
  /\ rev = "part_000"
  /\ poseInit = "pending"
  /\ \E r \in {"ok", "partial", "failed"} :
       /\ poseInit' = r
       /\ IF r = "ok" /\ mounted /\ ~detectionActive /\ rafPending < MaxLoops
          THEN /\ detectionActive' = TRUE
               /\ \E out \in DetectOutcomes, thr \in BOOLEAN :
                    P0_runDetectionLoop(TRUE, TRUE, -1, rafPending, out, thr)
          ELSE /\ log' = <<>>
               /\ UNCHANGED <<detectionActive, rafPending, lastVideoTime,
                              lastStamp, prevStamp, lastFrame>>
  /\ UNCHANGED <<rev, numVideos, mounted, source, video, animationFrameId,
                 awaiting, segmentationMask>>
  /\ UNCHANGED renderer
  /\ UNCHANGED units
  /\ UNCHANGED now
  /\ UNCHANGED catalog
  /\ UNCHANGED uploads

\* part_000 after its mounted hook (lines 91-100): the first default video
\* is the source, the hook's initializePoseDetection is under way.
Init_part000 ==
  /\ rev = "part_000"
  /\ numVideos = 4
  /\ mounted = TRUE
  /\ poseInit = "pending"
  /\ detectionActive = FALSE
  /\ usingWebcam = FALSE
  /\ webcamReady = FALSE
  /\ mediaStream = FALSE
  /\ liveStreams = 0
  /\ srcObject = FALSE
  /\ currentVideoSource = TRUE
  /\ camPending = 0
  /\ metaHandler = "none"
  /\ paused = TRUE
  /\ ended = FALSE
  /\ readyState = 0
  /\ metaPending = FALSE
  /\ currentTime = 0
  /\ lastVideoTime = -1
  /\ rafPending = 0
  /\ animationFrameId = "null"
  /\ awaiting = 0
  /\ segmentationMask = "null"
  /\ log = <<>>
  /\ now = 0
  /\ lastVideoIndex = -1
  /\ randomIndex = -1
  /\ selectedVideo = -1
  /\ lrv = "idle"
  /\ liveObjectUrls = 0
  /\ uploadedObjectUrl = FALSE
  /\ sourceIsUpload = FALSE
  /\ lastStamp = 0
  /\ prevStamp = 0
  /\ lastFrame = -1
  /\ InitRenderer
  /\ InitUnits

\* ------------------------------------ the frame-deduplicating schedulers
Init_dedup == (Init /\ rev = "VideoDisplay") \/ Init_part000

\* The schedulers of VideoDisplay.vue and part_000 with playback, stop/start
\* toggles and, in VideoDisplay, switches between the default videos.
Next_dedup ==
  \/ rev = "VideoDisplay" /\ InitializePoseDetection
  \/ ReadyStateChange
  \/ PlaybackChange
  \/ TimeAdvance
  \/ VD_Tick
  \/ VD_Resume
  \/ VD_toggleDetection
  \/ VD_loadDefaultVideo
  \/ P0_Tick
  \/ P0_toggleDetection
  \/ P0_InitResolve

DedupSpec == Init_dedup /\ [][Next_dedup]_vars

\* ------------------------- VideoDisplay.vue, second script: file upload
\* stopWebcam (lines 476-485) when a stream is held, as handleFileUpload,
\* loadDefaultVideo and onUnmounted call it.
UP_stopWebcamIfHeld ==
  /\ mediaStream' = FALSE
  /\ liveStreams' = stopWebcamLive
  /\ srcObject' = (srcObject /\ ~(mediaStream /\ mounted))

\* handleFileUpload (lines 488-506) with a file chosen: an object URL is
\* created and becomes the source. The function it returns, which would
\* revoke the URL, goes to the event dispatcher, which drops it.
UP_handleFileUpload ==
  /\ rev = "VideoDisplayUpload"
  /\ mounted
  /\ liveObjectUrls < MaxUploads
  /\ UP_stopWebcamIfHeld
  /\ liveObjectUrls' = liveObjectUrls + 1
  /\ sourceIsUpload' = TRUE
  /\ currentVideoSource' = TRUE
  /\ usingWebcam' = FALSE
  /\ ElementLoad
  /\ log' = <<>>
  /\ UNCHANGED <<rev, numVideos, mounted, poseInit, sched, segmentationMask,
                 webcamReady, camPending, metaHandler, uploadedObjectUrl>>
  /\ UNCHANGED renderer
  /\ UNCHANGED units
  /\ UNCHANGED clock
  /\ UNCHANGED catalog

\* loadDefaultVideo (lines 432-445): a default video becomes the source.
UP_loadDefaultVideo ==
  /\ rev = "VideoDisplayUpload"
  /\ mounted
  /\ UP_stopWebcamIfHeld
  /\ sourceIsUpload' = FALSE
  /\ currentVideoSource' = TRUE
  /\ usingWebcam' = FALSE
  /\ ElementLoad
  /\ log' = <<>>
  /\ UNCHANGED <<rev, numVideos, mounted, poseInit, sched, segmentationMask,
                 webcamReady, camPending, metaHandler, liveObjectUrls,
                 uploadedObjectUrl>>
  /\ UNCHANGED renderer
  /\ UNCHANGED units
  /\ UNCHANGED clock
  /\ UNCHANGED catalog

\* activateWebcam up to its await (lines 453-461): the video is paused and
\* the source cleared, then getUserMedia is awaited.
UP_activateWebcam ==
  /\ rev = "VideoDisplayUpload"
  /\ mounted
  /\ liveStreams + camPending < MaxStreams
  /\ camPending' = camPending + 1
  /\ sourceIsUpload' = FALSE
  /\ currentVideoSource' = FALSE
  /\ IF srcObject
     THEN /\ paused' = TRUE
          /\ UNCHANGED <<ended, readyState, metaPending, currentTime>>
     ELSE ElementLoad
  /\ log' = <<>>
  /\ UNCHANGED <<rev, numVideos, mounted, poseInit, sched, segmentationMask,
                 usingWebcam, webcamReady, mediaStream, liveStreams, srcObject,
                 metaHandler, liveObjectUrls, uploadedObjectUrl>>
  /\ UNCHANGED renderer
  /\ UNCHANGED units
  /\ UNCHANGED clock
  /\ UNCHANGED catalog

\* activateWebcam after its await (lines 461-473): the stream is stored,
\* then attached; attaching to a null videoElement throws into the catch.
UP_CamResolve ==
  /\ rev = "VideoDisplayUpload"
  /\ camPending > 0
  /\ camPending' = camPending - 1
  /\ \E ok \in BOOLEAN :
       IF ok
       THEN /\ mediaStream' = TRUE
            /\ liveStreams' = liveStreams + 1
            /\ srcObject' = mounted
            /\ usingWebcam' = (usingWebcam \/ mounted)
            /\ IF mounted THEN ElementLoad ELSE UNCHANGED video
       ELSE UNCHANGED <<mediaStream, liveStreams, srcObject, usingWebcam,
                        video>>
  /\ log' = <<>>
  /\ UNCHANGED <<rev, numVideos, mounted, poseInit, sched, segmentationMask,
                 webcamReady, currentVideoSource, metaHandler>>
  /\ UNCHANGED renderer
  /\ UNCHANGED units
  /\ UNCHANGED clock
  /\ UNCHANGED catalog
  /\ UNCHANGED uploads

\* onUnmounted (lines 403-407): the stream is stopped if one is held;
\* nothing else is released.
UP_onUnmounted ==
  /\ rev = "VideoDisplayUpload"
  /\ mounted
  /\ mounted' = FALSE
  /\ mediaStream' = FALSE
  /\ liveStreams' = stopWebcamLive
  /\ usingWebcam' = (usingWebcam /\ ~mediaStream)
  /\ log' = <<>>
  /\ UNCHANGED <<rev, numVideos, poseInit, sched, segmentationMask, video,
                 srcObject, webcamReady, currentVideoSource, camPending,
                 metaHandler>>
  /\ UNCHANGED renderer
  /\ UNCHANGED units
  /\ UNCHANGED clock
  /\ UNCHANGED catalog
  /\ UNCHANGED uploads

\* The second script after its mounted hook (lines 398-401): the first of
\* its two default videos is the source; it has no pose detection.
Init_videoDisplayUpload ==
  /\ rev = "VideoDisplayUpload"
  /\ numVideos = 2
  /\ mounted = TRUE
  /\ poseInit = "failed"
  /\ detectionActive = FALSE
  /\ usingWebcam = FALSE
  /\ webcamReady = FALSE
  /\ mediaStream = FALSE
  /\ liveStreams = 0
  /\ srcObject = FALSE
  /\ currentVideoSource = TRUE
  /\ camPending = 0
  /\ metaHandler = "none"
  /\ paused = TRUE
  /\ ended = FALSE
  /\ readyState = 0
  /\ metaPending = FALSE
  /\ currentTime = 0
  /\ lastVideoTime = -1
  /\ rafPending = 0
  /\ animationFrameId = "null"
  /\ awaiting = 0
  /\ segmentationMask = "null"
  /\ log = <<>>
  /\ now = 0
  /\ lastVideoIndex = -1
  /\ randomIndex = -1
  /\ selectedVideo = -1
  /\ lrv = "idle"
  /\ liveObjectUrls = 0
  /\ uploadedObjectUrl = FALSE
  /\ sourceIsUpload = FALSE
  /\ lastStamp = 0
  /\ prevStamp = 0
  /\ lastFrame = -1
  /\ InitRenderer
  /\ InitUnits

\* ------------------------------------------------------- the object URLs
Init_upload == (Init /\ rev = "part_001") \/ Init_videoDisplayUpload

\* Source management of the two revisions with object-URL code: uploads,
\* switches to a catalog or default video and to the webcam, unmount.
Next_upload ==
  \/ ReadyStateChange
  \/ PlaybackChange
  \/ LoadRandomVideo
  \/ toggleCamera
  \/ CamResolve
  \/ onVideoLoaded
  \/ onUnmounted
  \/ UP_handleFileUpload
  \/ UP_loadDefaultVideo
  \/ UP_activateWebcam
  \/ UP_CamResolve
  \/ UP_onUnmounted

UploadSpec == Init_upload /\ [][Next_upload]_vars

\* ================================================================= claims
Has(l, e) == \E i \in 1..Len(l) : l[i] = e

\* All the preconditions of a detection hold: the source exists, is neither
\* paused nor ended, has buffered readyState >= 3, and the camera latch is
\* set when the source is the camera.
Ready ==
  /\ mounted
  /\ ~paused
  /\ ~ended
  /\ readyState >= HAVE_FUTURE_DATA
  /\ (usingWebcam => webcamReady)

\* The detection call of the last handler raised an error (not the render).
DetectFailed == Has(log, "error") /\ ~Has(log, "render")

C2_NoDetectionWhenOff ==
  [][(~detectionActive /\ ~toggleDetection /\ ~VD_toggleDetection) =>
       /\ ~Has(log', "detect")
       /\ awaiting' <= awaiting
       /\ (Tick \/ VD_Tick) => rafPending' = rafPending - 1]_vars

\* C2 witness: detection ran, was switched off, and a frame callback has
\* observed the flag off and stopped.
C2_Witness ==
  /\ ~detectionActive
  /\ mounted
  /\ log = <<"stop">>
  /\ segmentationMask # "null"

\* C3: after a render call the mask stored by the detection has been
\* released, and exactly once.
C3_MaskReleasedOnce ==
  Has(log, "render") => (segmentationMask # "open" /\ ~Has(log, "rerelease"))

\* C4: a detection call that raises an error clears the flag in that tick
\* and requests no next frame.
C4_FailStop ==
  DetectFailed => (~detectionActive /\ ~Has(log, "reschedule"))

\* C4 holds of part_001's scheduler.
C4_FailStop_part001 == rev = "part_001" => C4_FailStop

\* C5: a detection is issued only on a tick where every precondition holds.
C5_DetectOnlyWhenReady == Has(log, "detect") => Ready

\* C5 holds of part_001's scheduler.
C5_DetectOnlyWhenReady_part001 == rev = "part_001" => C5_DetectOnlyWhenReady

\* C7: in part_001 a tick whose detection stored a mask and whose render
\* completed did render, release, reschedule (if still active), each once
\* and in this order.
C7_TickOrder ==
  (rev = "part_001" /\ Has(log, "render") /\ ~Has(log, "error")
     /\ segmentationMask # "null") =>
    log = <<"render", "release">>
          \o (IF detectionActive THEN <<"reschedule">> ELSE <<>>)

\* C8: in part_001 at most one camera stream is live: every stream acquired
\* earlier has had its tracks stopped.
C8_OneLiveStream == rev = "part_001" => liveStreams <= 1

\* C8 fails in VideoDisplay too.
C8_OneLiveStream_VideoDisplay == rev = "VideoDisplay" => liveStreams <= 1

\* C9: when the webcam is the source and the latch is set, the
\* loadedmetadata event of the attached stream has been delivered since it
\* was attached.
C9_LatchFresh ==
  (usingWebcam /\ webcamReady) =>
    (srcObject /\ readyState # 0 /\ ~metaPending)

\* C9 holds of part_001.
C9_LatchFresh_part001 == rev = "part_001" => C9_LatchFresh

\* C6: a scheduler invocation that found the flag set and a precondition
\* failing issued no detection and requested exactly one next frame.
C6_BlockedTickReschedules ==
  (detectionActive /\ ~Ready /\ log # <<>> /\ ~Has(log, "render")) =>
    log = <<"reschedule">>

\* C6 holds of part_001's scheduler.
C6_BlockedTickReschedules_part001 ==
  rev = "part_001" => C6_BlockedTickReschedules

\* A source-switch handler of part_001: loadVideo, activateWebcam (up to and
\* after its await) and the stopWebcam they call.
SourceSwitch == LoadRandomVideo \/ toggleCamera \/ CamResolve

C11_InFlightCompletesThenStops ==
  /\ [][(toggleDetection /\ detectionActive) => awaiting' = awaiting]_vars
  /\ [][(Resume /\ ~detectionActive) =>
          /\ awaiting' = awaiting - 1
          /\ mounted => Has(log', "render")
          /\ rafPending' = rafPending
          /\ ~Has(log', "reschedule")
          /\ ~Has(log', "detect")]_vars

\* C11 witness: a detection that was in flight when the flag went off has
\* completed and been rendered, and nothing is pending or awaited.
C11_Witness ==
  /\ rev = "part_001"
  /\ mounted
  /\ ~detectionActive
  /\ Has(log, "render")
  /\ ~Has(log, "error")
  /\ rafPending = 0
  /\ awaiting = 0

\* How many operations named n the last drawing call made.
NumOps(n) == Cardinality({i \in 1..Len(ops) : ops[i][1] = n})
\* The layers the last drawing call painted, in order.
IsLayer(o) ==
  o[1] \in {"drawManualMask", "strokeRect", "drawConnectors", "drawLandmarks"}
DrawnLayers == SelectSeq(ops, IsLayer)
\* Per pose, in detector order: bounding box, connectors, landmark points.
PoseLayers(n) ==
  [j \in 1..(3 * n) |->
     <<IF j % 3 = 1 THEN "strokeRect"
       ELSE IF j % 3 = 2 THEN "drawConnectors" ELSE "drawLandmarks",
       (j + 2) \div 3>>]

\* C12: after a render call whose result has no poses the canvas holds no
\* overlay pixels of an earlier frame.
C12_NoStaleOverlay ==
  (call = "drawPoseResults" /\ rendered.nPoses = 0) => ~overlay

\* C13: a render call with a video dimension of zero or a canvas of zero
\* area makes no drawing operation (nothing beyond the clear) and raises no
\* error.
C13_NoDrawingWithoutArea ==
  (call = "drawPoseResults"
     /\ (rendered.vw = 0 \/ rendered.vh = 0 \/ canvasW = 0 \/ canvasH = 0)) =>
    /\ \A i \in 1..Len(ops) : ops[i][1] = "clearRect"
    /\ ~rendered.threw

\* C14: on return from a render call every save has been matched by a
\* restore.
C14_SaveRestoreBalanced ==
  call = "drawPoseResults" => NumOps("save") = NumOps("restore")

\* C15: a render call that completes paints the mask (if any) first and
\* then, for each pose in detector order, the bounding box, the connectors
\* and the landmark points.
C15_LayerOrder ==
  (call = "drawPoseResults" /\ ~rendered.threw /\ DrawnLayers # <<>>) =>
    DrawnLayers =
      (IF DrawnLayers[1][1] = "drawManualMask" THEN <<DrawnLayers[1]>> ELSE <<>>)
      \o PoseLayers(rendered.nPoses)

\* What holds of poseDetection.js: mask first, then per pose connectors
\* before landmark points; no bounding box is drawn.
C15_LayerOrder_poseDetection ==
  (call = "drawPoseResults" /\ drawRev = "poseDetection"
     /\ ~rendered.threw /\ DrawnLayers # <<>>) =>
    DrawnLayers =
      (IF DrawnLayers[1][1] = "drawManualMask" THEN <<DrawnLayers[1]>> ELSE <<>>)
      \o SkeletonCalls("poseDetection", rendered.nPoses)

C16_MaskDrawnAtMostOnce ==
  call = "drawPoseResults" => NumOps("drawManualMask") <= 1

C18_NoStartAfterFailedInit ==
  [][(toggleDetection /\ ~detectionActive /\ poseInit = "failed") =>
       ~detectionActive']_vars

\* C18, first half: a detect call made while the landmarker is missing
\* raises an error and does not reach detectForVideo.
C18_NoLibraryCallBeforeInit == ~poseLandmarker => ~Has(log, "detect")

SetMin(S) == CHOOSE m \in S : \A e \in S : m <= e
SetMax(S) == CHOOSE m \in S : \A e \in S : m >= e
Xs == {landmarks.pts[i].x : i \in 1..Len(landmarks.pts)}
Ys == {landmarks.pts[i].y : i \in 1..Len(landmarks.pts)}
\* Every coordinate of the given landmarks lies in [0,1].
InUnitSquare == (Xs \cup Ys) \subseteq 0..Scale

\* Landmark coordinates are numbers on the grid Coords / Scale; a coordinate
\* that is not a number is outside the model.
\* C19: for at least one landmark the box is well formed (minX <= maxX,
\* minY <= maxY, normalizedWidth = maxX - minX >= 0, normalizedHeight =
\* maxY - minY >= 0), and for coordinates in [0,1] its bounds are the exact
\* minimum and maximum of the landmarks' x and y. For poseDrawingUtils.js
\* the same is read off the rectangle it strokes.
C19_BoxWellFormed ==
  (call = "boundingBox" /\ landmarks.present /\ Len(landmarks.pts) >= 1) =>
    IF drawRev = "part_002"
    THEN /\ box.defined
         /\ box.minX <= box.maxX
         /\ box.minY <= box.maxY
         /\ box.normalizedWidth = box.maxX - box.minX
         /\ box.normalizedHeight = box.maxY - box.minY
         /\ box.normalizedWidth >= 0
         /\ box.normalizedHeight >= 0
         /\ InUnitSquare =>
              /\ box.minX = SetMin(Xs)
              /\ box.maxX = SetMax(Xs)
              /\ box.minY = SetMin(Ys)
              /\ box.maxY = SetMax(Ys)
    ELSE /\ Len(ops) = 3
         /\ ops[2][1] = "strokeRect"
         /\ ops[2][4] >= 0
         /\ ops[2][5] >= 0
         /\ InUnitSquare =>
              ops[2] = <<"strokeRect",
                         SetMin(Xs) * rendered.vw, SetMin(Ys) * rendered.vh,
                         (SetMax(Xs) - SetMin(Xs)) * rendered.vw,
                         (SetMax(Ys) - SetMin(Ys)) * rendered.vh>>

\* C19 witness: a box of positive width and height was computed from two
\* landmarks.
C19_Witness ==
  /\ call = "boundingBox"
  /\ drawRev = "part_002"
  /\ Len(landmarks.pts) = 2
  /\ box.defined
  /\ box.normalizedWidth > 0
  /\ box.normalizedHeight > 0

\* C20: for an empty or missing landmark sequence no box is returned (null,
\* not a zero-size box) and drawing it makes no canvas operation.
C20_EmptyGivesNoBox ==
  (call = "boundingBox" /\ (~landmarks.present \/ Len(landmarks.pts) = 0)) =>
    (box = NoBox /\ ops = <<>>)

\* C20 witness: the bounding-box code of part_002 was given an empty array.
C20_Witness ==
  /\ call = "boundingBox"
  /\ drawRev = "part_002"
  /\ landmarks.present
  /\ landmarks.pts = <<>>

\* C21: for positive dimensions the scale is the smaller of canvasW/videoW
\* and canvasH/videoH (the scaled video fits the canvas and touches it in
\* one direction) and the offsets are half of what the scaled video leaves
\* free; 800x600 with 400x300 gives scale 2, with 640x480 scale 1.25, both
\* with offsets 0.
C21_TransformIsLetterbox ==
  call = "renderTransform" =>
    LET cw == dims[1]
        ch == dims[2]
        vw == dims[3]
        vh == dims[4]
        s == transform.scale
        ox == transform.offsetX
        oy == transform.offsetY
    IN /\ IsFinite(s) /\ IsFinite(ox) /\ IsFinite(oy)
       /\ s.num * vw <= cw * s.den
       /\ s.num * vh <= ch * s.den
       /\ (s.num * vw = cw * s.den \/ s.num * vh = ch * s.den)
       /\ 2 * ox.num * s.den = ox.den * (cw * s.den - vw * s.num)
       /\ 2 * oy.num * s.den = oy.den * (ch * s.den - vh * s.num)
       /\ (dims = <<800, 600, 400, 300>> =>
             (s = Num(2, 1) /\ ox = Zero /\ oy = Zero))
       /\ (dims = <<800, 600, 640, 480>> =>
             (s = Num(5, 4) /\ ox = Zero /\ oy = Zero))

\* C21 witness: the transform of the 640x480 example was computed, and so
\* was one of a video letterboxed in a canvas of another aspect ratio.
C21_Witness ==
  /\ call = "renderTransform"
  /\ \/ (dims = <<800, 600, 640, 480>> /\ transform.scale = Num(5, 4))
     \/ (dims = <<1, 3, 2, 2>> /\ transform.scale = Num(1, 2)
           /\ transform.offsetY = One)

MaskDrawn ==
  call = "drawManualMask" /\ \E i \in 1..Len(ops) : ops[i][1] = "putImageData"

\* C23: colorizing a mask of W x H cells writes exactly W*H cells, cell i
\* being (0, 191, 255, floor(confidence_i * 0.7 * 255)); confidence 1.0
\* gives alpha 178 and confidence 0.0 alpha 0.
C23_ColorizeCells ==
  MaskDrawn =>
    /\ Len(reusableImageData.data) = mask.width * mask.height
    /\ \A i \in 1..(mask.width * mask.height) :
         LET px == reusableImageData.data[i]
             c == mask.data[i]
         IN /\ px[1] = 0 /\ px[2] = 191 /\ px[3] = 255
            /\ 10 * ConfSteps * px[4] <= c * 7 * 255
            /\ c * 7 * 255 < 10 * ConfSteps * (px[4] + 1)
            /\ (c = ConfSteps => px[4] = 178)
            /\ (c = 0 => px[4] = 0)

\* C23 witness: a mask of more than one cell was colorized, one cell with
\* confidence 1.0 and one with confidence 0.0.
C23_Witness ==
  /\ MaskDrawn
  /\ mask.width * mask.height > 1
  /\ \E i, j \in 1..(mask.width * mask.height) :
       /\ mask.data[i] = ConfSteps /\ reusableImageData.data[i][4] = 178
       /\ mask.data[j] = 0 /\ reusableImageData.data[j][4] = 0

\* C24: the bounding box is stroked at (minX*videoWidth, minY*videoHeight)
\* with size (normalizedWidth*videoWidth, normalizedHeight*videoHeight),
\* and the mask is blitted to (0, 0, videoWidth, videoHeight): both from
\* the video's dimensions, whatever the canvas's.
C24_DrawnInVideoPixels ==
  /\ call = "boundingBox" =>
       LET b == calculatePoseBoundingBox(landmarks)
       IN \A i \in 1..Len(ops) :
            ops[i][1] = "strokeRect" =>
              ops[i] = <<"strokeRect",
                         b.minX * rendered.vw, b.minY * rendered.vh,
                         b.normalizedWidth * rendered.vw,
                         b.normalizedHeight * rendered.vh>>
  /\ call = "drawManualMask" =>
       \A i \in 1..Len(ops) :
         ops[i][1] = "drawImage" =>
           ops[i][2] = <<0, 0, rendered.vw, rendered.vh>>

\* C24 witness: a box of positive size was stroked on a video wider than
\* the canvas.
C24_Witness ==
  /\ call = "boundingBox"
  /\ rendered.vw > canvasW
  /\ \E i \in 1..Len(ops) :
       ops[i][1] = "strokeRect" /\ ops[i][2] > 0 /\ ops[i][4] > 0

\* A mask was blitted on a video whose width is not the canvas's.
C24_Witness_Mask ==
  /\ MaskDrawn
  /\ rendered.vw # canvasW
  /\ \E i \in 1..Len(ops) : ops[i][1] = "drawImage"

\* C26: at most one scratch canvas is ever created and kept (a mask of
\* other dimensions resizes it), and whenever the colorize loop has run the
\* scratch canvas, the pixel buffer and lastMaskWidth/lastMaskHeight have
\* the mask's width and height.
C26_ScratchMatchesMask ==
  /\ maskCanvas.made <= 1
  /\ MaskDrawn =>
       /\ maskCanvas.made = 1
       /\ maskCanvas.width = mask.width
       /\ maskCanvas.height = mask.height
       /\ reusableImageData.present
       /\ reusableImageData.width = mask.width
       /\ reusableImageData.height = mask.height
       /\ Len(reusableImageData.data) = mask.width * mask.height
       /\ lastMaskWidth = mask.width
       /\ lastMaskHeight = mask.height
  /\ reusableImageData.present =>
       /\ reusableImageData.width = lastMaskWidth
       /\ reusableImageData.height = lastMaskHeight

\* C26 witness: the loop ran on a 2 x 1 mask with the one scratch canvas
\* resized to it.
C26_Witness ==
  /\ MaskDrawn
  /\ mask.width = 2 /\ mask.height = 1
  /\ maskCanvas = [made |-> 1, width |-> 2, height |-> 1]

\* C25: of any two detection requests the later one carries a timestamp not
\* smaller than the earlier one's (and no request is stamped ahead of the
\* clock), also across stop/start toggles and source switches.
C25_TimestampsMonotonic == prevStamp <= lastStamp /\ lastStamp <= now

\* C25 witness: two requests were issued at different times, the flag having
\* been off in between or being off now.
C25_Witness == prevStamp = 1 /\ lastStamp = 2 /\ ~detectionActive

\* C28: at most one tick callback is pending at any time, and in part_001
\* the stored animation-frame id names it.
C28_OneChain ==
  /\ rafPending <= 1
  /\ (rev = "part_001" /\ rafPending = 1) => animationFrameId = "pending"

\* C28 restricted to part_001.
C28_OneChain_part001 == rev = "part_001" => C28_OneChain

\* The webcam is the source, its metadata has been delivered, the video is
\* playing and buffered, and detection is on.
WebcamPlaying ==
  /\ mounted
  /\ detectionActive
  /\ usingWebcam
  /\ ~metaPending
  /\ ~paused /\ ~ended
  /\ readyState >= HAVE_FUTURE_DATA

\* C27: if detection is on with the webcam as source, its metadata already
\* delivered, and the video stays playing and buffered with the flag left
\* on, detection requests keep being issued.
C27_WebcamDetectionStarts == <>[]WebcamPlaying => []<>Has(log, "detect")

\* What holds for C27: the same with the camera latch set.
C27_WebcamDetectionStarts_Latched ==
  <>[](WebcamPlaying /\ webcamReady) => []<>Has(log, "detect")

\* C29: toggling the camera while the webcam is the source ends with the
\* stream stopped, usingWebcam false and a catalog video as the source,
\* whatever the size of the catalog.
C29_CameraOffSelectsVideo ==
  [][(usingWebcam /\ toggleCamera) =>
       (~mediaStream' /\ ~usingWebcam' /\ currentVideoSource')]_vars

\* What holds for C29: the same for a catalog of two or more videos.
C29_CameraOffSelectsVideo_TwoOrMore ==
  [][(usingWebcam /\ numVideos >= 2 /\ toggleCamera) =>
       (~mediaStream' /\ ~usingWebcam' /\ currentVideoSource')]_vars

\* C30: with a catalog of two or more videos, loadRandomVideo leaves its
\* loop with an index inside the catalog that differs from the index of the
\* previous call, records it as the last index and loads that entry; and
\* under fair random choice the loop is always left.
C30_FreshIndexAndTerminates ==
  /\ [][(numVideos >= 2 /\ lrv = "loop" /\ lrv' = "idle") =>
          /\ randomIndex' \in 0..(numVideos - 1)
          /\ randomIndex' # lastVideoIndex
          /\ lastVideoIndex' = randomIndex'
          /\ selectedVideo' = randomIndex'
          /\ selectedVideo' # selectedVideo]_vars
  /\ ((numVideos >= 2 /\ lrv = "loop") ~> lrv = "idle")

\* C30 is exercised in a second call: the loop has just drawn the index of
\* the previous call and goes round again.
C30_Witness ==
  /\ numVideos >= 2
  /\ lrv = "loop"
  /\ lastVideoIndex >= 0
  /\ randomIndex = lastVideoIndex
  /\ selectedVideo = lastVideoIndex

\* C30 does not extend to an empty catalog: a second call never returns.
C30_EmptyCatalogTerminates == (numVideos = 0 /\ lrv = "loop") ~> lrv = "idle"

\* C31: between event handlers, usingWebcam is true exactly when a camera
\* stream is held.
C31_WebcamFlagMatchesStream == usingWebcam <=> mediaStream

\* C31 restricted to the mounted component.
C31_WebcamFlagMatchesStream_Mounted == mounted => (usingWebcam <=> mediaStream)

\* C32: once the component is unmounted the active flag is false, no camera
\* stream is live, no tick is pending and no detection request is issued.
C32_UnmountedIsQuiet ==
  ~mounted =>
    /\ ~detectionActive
    /\ liveStreams = 0
    /\ rafPending = 0
    /\ ~Has(log, "detect")

\* C32 restricted to part_001.
C32_UnmountedIsQuiet_part001 == rev = "part_001" => C32_UnmountedIsQuiet

\* The parts of C32 taken one at a time.
C32_FlagOff == ~mounted => ~detectionActive
C32_StreamStopped == ~mounted => liveStreams = 0
C32_NoTickPending == ~mounted => rafPending = 0
C32_NoDetection == ~mounted => ~Has(log, "detect")
C32_FlagOff_part001 == rev = "part_001" => C32_FlagOff
C32_StreamStopped_part001 == rev = "part_001" => C32_StreamStopped
C32_NoTickPending_part001 == rev = "part_001" => C32_NoTickPending

\* C33: for positive dimensions the scaled video fits inside the canvas and
\* is centred: videoW * scale <= canvasW, videoH * scale <= canvasH, both
\* offsets are >= 0 and at least one of them is 0 (as the code computes
\* them, in double precision).
C33_FitsAndCentred ==
  call = "renderTransform" =>
    /\ Cmp64(transform64.width, Int64(dims[1])) <= 0
    /\ Cmp64(transform64.height, Int64(dims[2])) <= 0
    /\ transform64.offsetX >= 0
    /\ transform64.offsetY >= 0
    /\ (transform64.offsetX = 0 \/ transform64.offsetY = 0)

\* What holds for C33: the same of the transform in exact arithmetic.
C33_FitsAndCentred_Exact ==
  call = "renderTransform" =>
    /\ transform.scale.num * dims[3] <= dims[1] * transform.scale.den
    /\ transform.scale.num * dims[4] <= dims[2] * transform.scale.den
    /\ transform.offsetX.num >= 0
    /\ transform.offsetY.num >= 0
    /\ (transform.offsetX = Zero \/ transform.offsetY = Zero)

\* The parts of C33 taken one at a time.
C33_OffsetsNotNegative ==
  call = "renderTransform" =>
    (transform64.offsetX >= 0 /\ transform64.offsetY >= 0)
C33_OneOffsetZero ==
  call = "renderTransform" =>
    (transform64.offsetX = 0 \/ transform64.offsetY = 0)

\* A step of a frame-deduplicating scheduler that issues a detection
\* request.
DedupDetects == rev \in DedupRevisions /\ Has(log', "detect")

\* C34: a frame-deduplicating scheduler issues a detection only when the
\* playback time differs from lastVideoTime, never for the playback time of
\* the request before it, and a tick that runs with the flag on leaves the
\* loop scheduled (a frame requested, or an invocation awaiting that
\* requests one).
C34_EachFrameOnce ==
  [][/\ DedupDetects =>
          (currentTime # lastVideoTime /\ currentTime # lastFrame)
     /\ ((VD_Tick \/ P0_Tick) /\ detectionActive /\ mounted
          /\ (rev = "part_000" => poseLandmarker)) =>
          rafPending' + awaiting' = rafPending + awaiting]_vars

\* C34 restricted to VideoDisplay.vue.
C34_EachFrameOnce_VideoDisplay ==
  [][rev = "VideoDisplay" =>
       /\ DedupDetects =>
            (currentTime # lastVideoTime /\ currentTime # lastFrame)
       /\ (VD_Tick /\ detectionActive /\ mounted) =>
            rafPending' + awaiting' = rafPending + awaiting]_vars

\* The parts of C34 taken one at a time.
C34_OnlyNewTime == [][DedupDetects => currentTime # lastVideoTime]_vars
C34_NoRepeat == [][DedupDetects => currentTime # lastFrame]_vars
C34_Rescheduled ==
  [][((VD_Tick \/ P0_Tick) /\ detectionActive /\ mounted
      /\ (rev = "part_000" => poseLandmarker)) =>
       rafPending' + awaiting' = rafPending + awaiting]_vars

\* C35: an object URL that was created and is not revoked is the URL of the
\* current source of the mounted component: it is revoked when the source
\* is switched away from it and when the component is unmounted.
C35_ObjectUrlsRevoked ==
  liveObjectUrls > 0 => (liveObjectUrls = 1 /\ sourceIsUpload /\ mounted)

\* C35 restricted to part_001, where no handler creates an object URL.
C35_ObjectUrlsRevoked_part001 == rev = "part_001" => C35_ObjectUrlsRevoked

\* Whether part_001 ever holds an object URL in uploadedObjectUrl.
C35_NothingToRevoke_part001 ==
  rev = "part_001" => (~uploadedObjectUrl /\ liveObjectUrls = 0)
====
